---- MODULE Spec2Model ----
(***************************************************************************)
(* Verification model of the real-cost decision pipeline.                  *)
(*                                                                         *)
(*   Spec         the HTTP estimation pipeline: Server.handleEstimate      *)
(*                (billing.Engine.Decompose -> estimation.Engine.Estimate  *)
(*                -> policy.Engine.Evaluate) on a loaded price catalog,    *)
(*                with policy.Engine.AddPolicy / WithOPA configuration.    *)
(*   CatalogSpec  the price catalog store: concurrent                      *)
(*                ClickHouseAdapter.IngestPricing runs, each a sequence of *)
(*                single SQL statements, and concurrent readers.           *)
(*   BatchSpec    the command-line tools fiac and terracost, each one      *)
(*                run from its arguments to its exit code.                 *)
(*   EstimatorSpec  the estimation-core service: Estimator.Estimate and    *)
(*                its calls through HTTPClient.PostJSON.                   *)
(*   PricingEngineSpec  the pricing engine: Ingest and POST /price.        *)
(*   CancelSpec   the estimation endpoint serving requests whose context   *)
(*                is cancelled.                                            *)
(*   ReplaySpec   the estimation endpoint serving the same request twice.  *)
(*   GovernanceSpec  the policy engine service: POST /evaluate and OPA.    *)
(*   TierSpec     tiered rates: Store.CalculateTieredCost and the cost the *)
(*                estimation engine gives a component with tiered rows.    *)
(*   MapperSpec   one resource change taken through the mappers of the     *)
(*                terracost and the fiac pipeline.                         *)
(*   EngineSpec   one policy.Engine used by concurrent Evaluate calls.     *)
(*                                                                         *)
(* Money is an integer number of micro-dollars (10^-6 $), so that          *)
(* decimal.Round(4) and StringFixed(2) are real roundings.  Confidence is  *)
(* an integer percentage (0.85 -> 85).                                     *)
(***************************************************************************)
EXTENDS Integers, Sequences, FiniteSets, TLC

VARIABLES
    pricing_snapshots,  \* table pricing_snapshots FINAL: snapshot id -> row
    pricing_rates,      \* table pricing_rates FINAL: set of rate rows
    ingest,             \* per ingestion worker: position inside IngestPricing
    observed,           \* what the last reader query returned
    policies,           \* policy.Engine.policies
    opaEndpoint,        \* policy.Engine.opaEndpoint
    request,            \* the EstimateRequest being served, with its environment's answers
    decomposition,      \* the DecompositionResult of the request being served
    estimation,         \* its EstimationResult
    response,           \* the EstimateResponse written for it
    batch,              \* the command-line invocation in progress and its exit code
    core,               \* the estimation-core service: position inside Estimator.Estimate
    priceLog,           \* the rows handed to the pricing engine's Ingest, which stores none
    priceReply,         \* what the pricing engine's handleGetPrice answered last
    cancelledAt,        \* the ResolveRate call (from 1) at which the served request's
                        \* context was cancelled; 0 when it was not
    replay,             \* the results of two runs of the estimation on one plan
    governance,         \* the policy engine service: the estimate posted to /evaluate
                        \* and its answer
    tiered,             \* a component priced from tiered rate rows: the usage, the
                        \* tiers, the tiered cost and the cost driver
    mapperRun,          \* one resource change taken through a pipeline's mappers:
                        \* the node, its components and their drivers
    engineRun           \* a policy engine shared by concurrent Evaluate calls: its
                        \* policies slice with the backing array, and the calls

vars == <<pricing_snapshots, pricing_rates, ingest, observed,
          policies, opaEndpoint, request, decomposition, estimation, response,
          batch, core, priceLog, priceReply, cancelledAt, replay, governance, tiered, mapperRun, engineRun>>

catalogVars == <<pricing_snapshots, pricing_rates, ingest, observed>>
pipelineVars == <<policies, opaEndpoint, request, decomposition, estimation, response>>
batchVars == <<batch>>
coreVars == <<core, priceLog, priceReply>>
scopeVars == <<cancelledAt>>
replayVars == <<replay>>
governanceVars == <<governance>>
tierVars == <<tiered>>
mapperVars == <<mapperRun>>
engineVars == <<engineRun>>

\* what the actions of one specification leave alone
outsideCatalog == <<pipelineVars, batchVars, coreVars, scopeVars, replayVars, governanceVars, tierVars, mapperVars, engineVars>>
outsidePipeline == <<catalogVars, batchVars, coreVars, scopeVars, replayVars, governanceVars, tierVars, mapperVars, engineVars>>
outsideBatch == <<catalogVars, pipelineVars, coreVars, scopeVars, replayVars, governanceVars, tierVars, mapperVars, engineVars>>
outsideCore == <<catalogVars, pipelineVars, batchVars, scopeVars, replayVars, governanceVars, tierVars, mapperVars, engineVars>>
outsideReplay == <<catalogVars, pipelineVars, batchVars, coreVars, scopeVars, governanceVars, tierVars, mapperVars, engineVars>>
outsideGovernance == <<catalogVars, pipelineVars, batchVars, coreVars, scopeVars, replayVars, tierVars, mapperVars, engineVars>>
outsideTier == <<catalogVars, pipelineVars, batchVars, coreVars, scopeVars, replayVars, governanceVars, mapperVars, engineVars>>
outsideMapper == <<catalogVars, pipelineVars, batchVars, coreVars, scopeVars, replayVars, governanceVars, tierVars, engineVars>>
outsideEngine == <<catalogVars, pipelineVars, batchVars, coreVars, scopeVars, replayVars, governanceVars, tierVars, mapperVars>>

-----------------------------------------------------------------------------
(* Bounds of the model                                                     *)

MaxNodes == 2            \* resources in one plan
MaxAddedPolicies == 1    \* AddPolicy calls on one policy engine
MaxQueryErrors == 1      \* ResolveRate calls of one request that fail
MaxSnapshots == 3        \* snapshot ids ever created
NumWorkers == 2          \* concurrent IngestPricing callers

-----------------------------------------------------------------------------
(* Generic helpers                                                         *)

Nil == "nil"

Min2(a, b) == IF a < b THEN a ELSE b

\* decimal.Round(4) on micro-dollars: nearest multiple of 100, half away from zero
Round4(x) == ((x + 50) \div 100) * 100

\* decimal.StringFixed(2) on micro-dollars: the amount in whole cents
StringFixed2(x) == (x + 5000) \div 10000

-----------------------------------------------------------------------------
(* Price catalog rows                                                      *)

AttrOrder == <<"capacityStatus", "instanceType", "licenseModel",
               "operatingSystem", "preInstalledSw", "tenancy", "volumeType">>

\* hashAttributes: keys sorted, joined as k=v; (the digest is taken as injective)
RECURSIVE HashFrom(_, _)
HashFrom(attrs, i) ==
    IF i > Len(AttrOrder) THEN ""
    ELSE (IF AttrOrder[i] \in DOMAIN attrs
          THEN AttrOrder[i] \o "=" \o attrs[AttrOrder[i]] \o ";"
          ELSE "") \o HashFrom(attrs, i + 1)

hashAttributes(attrs) == HashFrom(attrs, 1)

EmptyAttrs == [k \in {} |-> ""]

ComputeAttrs(instanceType) ==
    [instanceType |-> instanceType, operatingSystem |-> "Linux", tenancy |-> "Shared",
     preInstalledSw |-> "NA", capacityStatus |-> "Used",
     licenseModel |-> "No License required"]

DefaultKey == [cloud |-> "aws", region |-> "us-east-1", alias |-> "default"]
OtherKey == [cloud |-> "aws", region |-> "eu-west-1", alias |-> "default"]
Keys == {DefaultKey, OtherKey}

SnapshotIds == 1..MaxSnapshots

NoRow == [exists |-> FALSE]

\* IngestionInput.Prices of the two catalog payloads, named by their content hash
Prices(hash) ==
    IF hash = "h1"
    THEN << [service |-> "AmazonEC2", product_family |-> "Compute Instance",
             attributes |-> ComputeAttrs("t3.medium"), unit |-> "hours",
             price |-> 41600, confidence |-> 100],
            [service |-> "AmazonEC2", product_family |-> "Storage",
             attributes |-> [volumeType |-> "General Purpose"], unit |-> "GB-month",
             price |-> 80000, confidence |-> 90] >>
    ELSE << [service |-> "AmazonEC2", product_family |-> "Compute Instance",
             attributes |-> ComputeAttrs("t3.medium"), unit |-> "hours",
             price |-> 40000, confidence |-> 100] >>

Hashes == {"h1", "h2"}

\* a row of pricing_snapshots as FINAL shows it: the columns of the last version written
SnapshotRow(key, hash, active, version) ==
    [exists |-> TRUE, cloud |-> key.cloud, region |-> key.region,
     provider_alias |-> key.alias, hash |-> hash, is_active |-> active,
     version |-> version]

RateRow(id, p) ==
    [snapshot_id |-> id, service |-> p.service, product_family |-> p.product_family,
     attributes_hash |-> hashAttributes(p.attributes), unit |-> p.unit,
     price |-> p.price, confidence |-> p.confidence]

\* Store.ResolveRate: the rows its query selects; the query returns one of them
\* (LIMIT 1), or no row when the set is empty
ResolveRate(snaps, rates, cloud, service, productFamily, region, attrs, unit, alias) ==
    {r \in rates :
        /\ snaps[r.snapshot_id].exists
        /\ snaps[r.snapshot_id].cloud = cloud
        /\ snaps[r.snapshot_id].region = region
        /\ snaps[r.snapshot_id].provider_alias = alias
        /\ snaps[r.snapshot_id].is_active
        /\ r.service = service
        /\ r.product_family = productFamily
        /\ r.attributes_hash = hashAttributes(attrs)
        /\ r.unit = unit}

\* Store.GetActiveSnapshot: the ids its query selects; it returns one (LIMIT 1) or nil
GetActiveSnapshot(snaps, key) ==
    {id \in SnapshotIds :
        /\ snaps[id].exists
        /\ snaps[id].cloud = key.cloud
        /\ snaps[id].region = key.region
        /\ snaps[id].provider_alias = key.alias
        /\ snaps[id].is_active}

-----------------------------------------------------------------------------
(* Semantic decomposition: billing.Engine.Decompose and the AWS mappers    *)

HoursPerMonth == 730

ExtractAttribute(attrs, key) == IF key \in DOMAIN attrs THEN attrs[key] ELSE ""

ExtractAttributeBool(attrs, key, defaultVal) ==
    IF key \in DOMAIN attrs THEN attrs[key] ELSE defaultVal

NewDefaultVarianceProfile(baselineHours) ==
    [baseline_usage |-> baselineHours,
     min_usage |-> (baselineHours * 8) \div 10,
     max_usage |-> baselineHours,
     p50_usage |-> (baselineHours * 9) \div 10,
     p90_usage |-> baselineHours,
     confidence |-> 85]

normalizeVolumeType(volumeType) ==
    CASE volumeType \in {"gp2", "gp3"} -> "General Purpose"
      [] volumeType \in {"io1", "io2"} -> "Provisioned IOPS"
      [] volumeType = "st1" -> "Throughput Optimized HDD"
      [] volumeType = "sc1" -> "Cold HDD"
      [] volumeType = "standard" -> "Magnetic"
      [] OTHER -> volumeType

\* the default root volume extractRootBlockDevice returns when none is given
extractRootBlockDevice(attrs) ==
    IF "root_block_device" \in DOMAIN attrs
    THEN attrs["root_block_device"]
    ELSE [volume_type |-> "gp3", volume_size |-> 8]

createEBSComponent(node, device, prefix, index) ==
    LET volumeType == IF "volume_type" \in DOMAIN device /\ device["volume_type"] # ""
                      THEN device["volume_type"] ELSE "gp3"
        volumeSize == IF "volume_size" \in DOMAIN device THEN device["volume_size"] ELSE 8
    IN [id |-> IF index > 0
               THEN node.address \o "-" \o prefix \o "-volume-" \o ToString(index)
               ELSE node.address \o "-" \o prefix \o "-volume",
        resource_addr |-> "",
        cloud |-> "aws", service |-> "AmazonEC2", product_family |-> "Storage",
        region |-> node.region, billing_period |-> "monthly",
        attributes |-> [volumeType |-> normalizeVolumeType(volumeType)],
        variance_profile |-> [baseline_usage |-> volumeSize, min_usage |-> volumeSize,
                              max_usage |-> volumeSize, p50_usage |-> volumeSize,
                              p90_usage |-> volumeSize, confidence |-> 99],
        depends_on |-> <<>>]

\* EC2InstanceMapper.MapToBillingComponents: components and mapping errors
EC2InstanceMapper(node) ==
    LET attrs == node.attributes
        instanceType == ExtractAttribute(attrs, "instance_type")
        compute ==
            [id |-> node.address \o "-compute", resource_addr |-> "",
             cloud |-> "aws", service |-> "AmazonEC2",
             product_family |-> "Compute Instance", region |-> node.region,
             billing_period |-> "hourly", attributes |-> ComputeAttrs(instanceType),
             variance_profile |-> NewDefaultVarianceProfile(HoursPerMonth),
             depends_on |-> <<>>]
        ebsOpt ==
            [id |-> node.address \o "-ebs-optimized", resource_addr |-> "",
             cloud |-> "aws", service |-> "AmazonEC2",
             product_family |-> "Compute Instance", region |-> node.region,
             billing_period |-> "hourly",
             attributes |-> [instanceType |-> instanceType],
             variance_profile |-> NewDefaultVarianceProfile(HoursPerMonth),
             depends_on |-> <<>>]
        monitoring ==
            [id |-> node.address \o "-monitoring", resource_addr |-> "",
             cloud |-> "aws", service |-> "AmazonCloudWatch",
             product_family |-> "Metric", region |-> node.region,
             billing_period |-> "monthly", attributes |-> EmptyAttrs,
             variance_profile |-> [baseline_usage |-> 7, min_usage |-> 0, max_usage |-> 0,
                                   p50_usage |-> 7, p90_usage |-> 7, confidence |-> 95],
             depends_on |-> <<>>]
    IN IF instanceType = ""
       THEN [components |-> <<>>,
             errors |-> << [resource_addr |-> node.address, resource_type |-> "aws_instance",
                            reason |-> "instance_type attribute is required",
                            is_critical |-> TRUE] >>]
       ELSE [components |->
                 <<compute>>
                 \o << createEBSComponent(node, extractRootBlockDevice(attrs), "root", 0) >>
                 \o (IF ExtractAttributeBool(attrs, "ebs_optimized", FALSE)
                     THEN <<ebsOpt>> ELSE <<>>)
                 \o (IF ExtractAttributeBool(attrs, "monitoring", FALSE)
                     THEN <<monitoring>> ELSE <<>>),
             errors |-> <<>>]

\* the resource types aws.RegisterAllMappers gives a mapper
RegisteredTypes ==
    {"aws_instance", "aws_ebs_volume", "aws_lambda_function", "aws_db_instance",
     "aws_dynamodb_table", "aws_s3_bucket", "aws_nat_gateway", "aws_lb", "aws_eip"}

\* Engine.findMapper: the mapper's resource type, or Nil
findMapper(resourceType) == IF resourceType \in RegisteredTypes THEN resourceType ELSE Nil

\* EBSVolumeMapper.MapToBillingComponents: the literal VarianceProfile{BaselineUsage,
\* P50Usage, Confidence} leaves the other fields at their zero value
EBSVolumeMapper(node) ==
    LET attrs == node.attributes
        volumeType == IF ExtractAttribute(attrs, "type") = "" THEN "gp3"
                      ELSE ExtractAttribute(attrs, "type")
        volumeSize == IF "size" \in DOMAIN attrs THEN attrs["size"] ELSE 8
    IN [components |->
            << [id |-> node.address \o "-storage", resource_addr |-> "",
                cloud |-> "aws", service |-> "AmazonEC2", product_family |-> "Storage",
                region |-> node.region, billing_period |-> "monthly",
                attributes |-> [volumeType |-> volumeType],
                variance_profile |-> [baseline_usage |-> volumeSize, min_usage |-> 0,
                                      max_usage |-> 0, p50_usage |-> volumeSize,
                                      p90_usage |-> 0, confidence |-> 99],
                depends_on |-> <<>>] >>,
        errors |-> <<>>]

\* mapper.MapToBillingComponents(node) of the mapper findMapper returned
MapToBillingComponents(node) ==
    IF node.type = "aws_ebs_volume" THEN EBSVolumeMapper(node)
    ELSE EC2InstanceMapper(node)

\* Engine.resolveComponentDependencies
RECURSIVE resolveComponentDependencies(_, _)
resolveComponentDependencies(deps, lookup) ==
    IF deps = <<>> THEN <<>>
    ELSE (IF Head(deps) \in DOMAIN lookup THEN lookup[Head(deps)] ELSE <<>>)
         \o resolveComponentDependencies(Tail(deps), lookup)

\* Decompose records one component of a resource
AddComponent(acc, node, comp) ==
    [acc EXCEPT
        !.components = Append(@, comp),
        !.components_created = @ + 1,
        !.componentsByResource =
            [a \in DOMAIN @ \cup {node.address} |->
                IF a = node.address
                THEN Append(IF a \in DOMAIN @ THEN @[a] ELSE <<>>, comp.id)
                ELSE @[a]]]

\* the inner loop of Decompose over one resource's components
RECURSIVE AddComponents(_, _, _, _)
AddComponents(acc, node, comps, i) ==
    IF i > Len(comps) THEN acc
    ELSE AddComponents(
             AddComponent(acc, node,
                 [comps[i] EXCEPT
                     !.resource_addr = node.address,
                     !.depends_on =
                         resolveComponentDependencies(node.dependencies,
                                                      acc.componentsByResource)]),
             node, comps, i + 1)

\* one iteration of the loop of Decompose: the node is a data source, has no mapper,
\* or is mapped to the components and errors in mapped
DecomposeNode(counted, node, mapped) ==
    IF node.mode = "data"
    THEN [counted EXCEPT !.resources_skipped = @ + 1]
    ELSE IF findMapper(node.type) = Nil
    THEN [counted EXCEPT
             !.uncovered_types = @ \cup {node.type},
             !.mapping_errors = Append(@,
                 [resource_addr |-> node.address, resource_type |-> node.type,
                  reason |-> "no mapper registered for resource type",
                  is_critical |-> FALSE])]
    ELSE IF Len(mapped.components) > 0
    THEN AddComponents(
             [counted EXCEPT !.mapping_errors = @ \o mapped.errors,
                             !.resources_mapped = @ + 1,
                             !.covered_types = @ \cup {node.type}],
             node, mapped.components, 1)
    ELSE [counted EXCEPT !.mapping_errors = @ \o mapped.errors]

\* Engine.Decompose over the nodes in the order TopologicalSort returned them
RECURSIVE DecomposeFrom(_, _, _)
DecomposeFrom(acc, nodes, i) ==
    IF i > Len(nodes) THEN acc
    ELSE DecomposeFrom(
             DecomposeNode([acc EXCEPT !.resources_processed = @ + 1], nodes[i],
                           MapToBillingComponents(nodes[i])),
             nodes, i + 1)

\* the DecompositionResult Decompose returns once its loop has ended
DecompositionResult(r) ==
    [components |-> r.components, mapping_errors |-> r.mapping_errors,
     resources_processed |-> r.resources_processed,
     resources_mapped |-> r.resources_mapped,
     resources_skipped |-> r.resources_skipped,
     components_created |-> r.components_created,
     covered_types |-> r.covered_types,
     uncovered_types |-> r.uncovered_types \ r.covered_types]

Decompose(nodes) ==
    DecompositionResult(
        DecomposeFrom(
            [components |-> <<>>, mapping_errors |-> <<>>,
             resources_processed |-> 0, resources_mapped |-> 0,
             resources_skipped |-> 0, components_created |-> 0,
             covered_types |-> {}, uncovered_types |-> {},
             componentsByResource |-> [a \in {} |-> <<>>]],
            nodes, 1))

-----------------------------------------------------------------------------
(* Cost estimation: estimation.Engine.Estimate                             *)

\* what one Store.ResolveRate call can answer
NoRate == [kind |-> "none"]
QueryError == [kind |-> "error"]
Rate(r) == [kind |-> "rate", price |-> r.price, confidence |-> r.confidence,
            snapshot_id |-> r.snapshot_id]

billingPeriodToUnit(period) ==
    CASE period = "hourly" -> "hours"
      [] period = "monthly" -> "GB-month"
      [] period = "per_request" -> "requests"
      [] period = "per_gb" -> "GB"
      [] OTHER -> "units"

\* Engine.estimateCarbonForComponent, in grams of CO2 (power in watts)
estimateCarbonForComponent(comp, intensityGCO2) ==
    LET powerW == CASE comp.service = "AmazonEC2" -> 100
                    [] comp.service = "AmazonRDS" -> 200
                    [] comp.service = "AWSLambda" -> 10
                    [] OTHER -> 50
    IN (powerW * HoursPerMonth * intensityGCO2) \div 1000

\* Engine.createSymbolicDriver
createSymbolicDriver(comp, reason) ==
    [id |-> "driver-" \o comp.id, component_id |-> comp.id,
     resource_addr |-> comp.resource_addr, service |-> comp.service,
     region |-> comp.region,
     monthly_cost_p50 |-> 0, monthly_cost_p90 |-> 0, unit_price |-> 0,
     usage_p50 |-> 0, usage_p90 |-> 0, carbon |-> 0, confidence |-> 0,
     is_symbolic |-> TRUE, reason |-> reason, snapshot_id |-> 0]

\* Engine.estimateComponent, given the answer of its ResolveRate call and the
\* carbon store (<<>> when nil, else the region's intensity): the driver and whether it returns an error
estimateComponent(comp, req, answer, carbonStore) ==
    LET driver ==
            [id |-> "driver-" \o comp.id, component_id |-> comp.id,
             resource_addr |-> comp.resource_addr, service |-> comp.service,
             region |-> comp.region,
             monthly_cost_p50 |-> 0, monthly_cost_p90 |-> 0, unit_price |-> 0,
             usage_p50 |-> comp.variance_profile.p50_usage,
             usage_p90 |-> comp.variance_profile.p90_usage,
             carbon |-> 0, confidence |-> comp.variance_profile.confidence,
             is_symbolic |-> FALSE, reason |-> "", snapshot_id |-> 0]
    IN CASE answer.kind = "error" ->
              [driver |-> driver, err |-> "pricing resolution failed"]
         [] answer.kind = "none" ->
              [driver |-> [driver EXCEPT !.is_symbolic = TRUE,
                                          !.reason = "no pricing data available"],
               err |-> Nil]
         [] OTHER ->
              [driver |-> [driver EXCEPT
                   !.unit_price = answer.price,
                   !.snapshot_id = answer.snapshot_id,
                   !.confidence = Min2(@, answer.confidence),
                   !.monthly_cost_p50 =
                       Round4(answer.price * comp.variance_profile.p50_usage),
                   !.monthly_cost_p90 =
                       Round4(answer.price * comp.variance_profile.p90_usage),
                   !.carbon = IF /\ req.include_carbon
                                 /\ carbonStore # <<>>
                                 /\ carbonStore[1] > 0
                              THEN estimateCarbonForComponent(comp, carbonStore[1])
                              ELSE 0],
               err |-> Nil]

\* sort.Slice by MonthlyCostP50 descending; below 12 elements Go sorts by insertion,
\* which keeps the order of equal elements
RECURSIVE InsertDriver(_, _)
InsertDriver(sorted, d) ==
    IF sorted = <<>> THEN <<d>>
    ELSE LET last == sorted[Len(sorted)]
         IN IF d.monthly_cost_p50 > last.monthly_cost_p50
            THEN Append(InsertDriver(SubSeq(sorted, 1, Len(sorted) - 1), d), last)
            ELSE Append(sorted, d)

RECURSIVE SortDrivers(_)
SortDrivers(ds) ==
    IF ds = <<>> THEN <<>>
    ELSE InsertDriver(SortDrivers(SubSeq(ds, 1, Len(ds) - 1)), ds[Len(ds)])

\* one iteration of the loop of Engine.Estimate: estimateComponent returned driver
\* and err for comp
AddDriver(result, comp, driver, err) ==
    [result EXCEPT
        !.components_processed = @ + 1,
        !.errors = IF err # Nil
                   THEN Append(@, [component_id |-> comp.id,
                                   resource_addr |-> comp.resource_addr,
                                   message |-> err, is_critical |-> FALSE])
                   ELSE @,
        !.components_symbolic = IF err # Nil THEN @ + 1 ELSE @,
        !.monthly_cost_p50 = @ + driver.monthly_cost_p50,
        !.monthly_cost_p90 = @ + driver.monthly_cost_p90,
        !.carbon = @ + driver.carbon,
        !.minConfidence = Min2(@, driver.confidence),
        !.snapshots_used =
            IF driver.snapshot_id # 0
            THEN [r \in DOMAIN @ \cup {driver.region} |->
                     IF r = driver.region THEN driver.snapshot_id ELSE @[r]]
            ELSE @,
        !.components_estimated = IF driver.is_symbolic THEN @ ELSE @ + 1,
        !.cost_drivers = Append(@, driver)]

\* the driver the loop keeps: the symbolic one when estimateComponent failed
DriverOrSymbolic(comp, e) ==
    IF e.err # Nil THEN createSymbolicDriver(comp, e.err) ELSE e.driver

EstimateOne(result, comp, e) == AddDriver(result, comp, DriverOrSymbolic(comp, e), e.err)

\* the loop of Engine.Estimate over req.Components
RECURSIVE EstimateFrom(_, _, _, _, _, _)
EstimateFrom(result, comps, req, answers, carbonStore, i) ==
    IF i > Len(comps) THEN result
    ELSE EstimateFrom(
             EstimateOne(result, comps[i],
                         estimateComponent(comps[i], req, answers[i], carbonStore)),
             comps, req, answers, carbonStore, i + 1)

\* Engine.Estimate after its loop: confidence, incomplete flag, warnings, sorted drivers
EstimationResult(r) ==
    [monthly_cost_p50 |-> r.monthly_cost_p50,
     monthly_cost_p90 |-> r.monthly_cost_p90,
     hourly_cost_p50 |-> IF r.monthly_cost_p50 # 0
                         THEN r.monthly_cost_p50 \div HoursPerMonth ELSE 0,
     carbon |-> r.carbon,
     cost_drivers |-> SortDrivers(r.cost_drivers),
     confidence |-> r.minConfidence,
     is_incomplete |-> r.components_symbolic > 0,
     errors |-> r.errors,
     warnings |-> (IF r.components_symbolic > 0
                   THEN <<"components could not be priced">> ELSE <<>>)
                  \o (IF r.components_symbolic > 0
                      THEN <<"Totals may be incomplete due to missing pricing data">>
                      ELSE <<>>),
     snapshots_used |-> r.snapshots_used,
     components_processed |-> r.components_processed,
     components_estimated |-> r.components_estimated,
     components_symbolic |-> r.components_symbolic]

\* Engine.Estimate
Estimate(comps, req, answers, carbonStore) ==
    EstimationResult(
        EstimateFrom(
            [monthly_cost_p50 |-> 0, monthly_cost_p90 |-> 0, carbon |-> 0,
             cost_drivers |-> <<>>, minConfidence |-> 100, errors |-> <<>>,
             snapshots_used |-> [r \in {} |-> 0], components_processed |-> 0,
             components_estimated |-> 0, components_symbolic |-> 0],
            comps, req, answers, carbonStore, 1))

-----------------------------------------------------------------------------
(* Policy evaluation: policy.Engine                                        *)

defaultPolicies ==
    << [id |-> "default-confidence", type |-> "confidence_threshold",
        severity |-> "warning", threshold |-> 70, enabled |-> TRUE],
       [id |-> "prod-incomplete", type |-> "incomplete_estimate",
        severity |-> "error", threshold |-> 0, enabled |-> TRUE] >>

\* Engine.evaluatePolicy: what the policy reports, "violation", "warning" or Nil
\* (thresholds are in dollars, percent and kg; the estimate in micro-dollars, percent
\* and grams)
evaluatePolicy(p, est, env) ==
    CASE p.type = "cost_limit" ->
             IF est.monthly_cost_p90 > p.threshold * 1000000
             THEN "violation" ELSE Nil
      [] p.type = "confidence_threshold" ->
             IF est.confidence < p.threshold
             THEN (IF p.severity = "error" THEN "violation" ELSE "warning")
             ELSE Nil
      [] p.type = "carbon_budget" ->
             IF est.carbon > p.threshold * 1000 THEN "violation" ELSE Nil
      [] p.type = "incomplete_estimate" ->
             IF est.is_incomplete /\ env = "prod" THEN "violation" ELSE Nil
      [] OTHER -> Nil

\* ApplyPolicy with the guard of the warn branch dropped: a violation of a policy
\* that is not of error severity sets warn even when the decision is deny already
ApplyPolicyDowngrading(result, policy, found) ==
    [result EXCEPT
        !.policies_ran = @ + 1,
        !.violations = IF found = "violation" THEN Append(@, policy.id) ELSE @,
        !.warnings = IF found = "warning" THEN Append(@, policy.id) ELSE @,
        !.decision =
            CASE found = "violation" /\ policy.severity = "error" -> "deny"
              [] found = "violation" -> "warn"
              [] found = "warning" /\ @ = "pass" -> "warn"
              [] OTHER -> @]

\* one iteration of the loop of Engine.Evaluate: an enabled policy reported found
ApplyPolicy(result, policy, found) ==
    [result EXCEPT
        !.policies_ran = @ + 1,
        !.violations = IF found = "violation" THEN Append(@, policy.id) ELSE @,
        !.warnings = IF found = "warning" THEN Append(@, policy.id) ELSE @,
        !.decision =
            CASE found = "violation" /\ policy.severity = "error" -> "deny"
              [] found = "violation" /\ @ # "deny" -> "warn"
              [] found = "warning" /\ @ = "pass" -> "warn"
              [] OTHER -> @]

\* the loop of Engine.Evaluate over allPolicies
RECURSIVE EvaluateFrom(_, _, _, _, _)
EvaluateFrom(result, allPolicies, est, env, i) ==
    IF i > Len(allPolicies) THEN result
    ELSE IF ~allPolicies[i].enabled
    THEN EvaluateFrom(result, allPolicies, est, env, i + 1)
    ELSE EvaluateFrom(
             ApplyPolicy(result, allPolicies[i],
                         evaluatePolicy(allPolicies[i], est, env)),
             allPolicies, est, env, i + 1)

\* Engine.evaluateOPA: no result (<<>>) without an endpoint, an error when the
\* endpoint cannot be reached, else the (always empty) result the stub builds
evaluateOPA(endpoint, opaFails) ==
    CASE endpoint = "" -> [result |-> <<>>, err |-> Nil]
      [] opaFails -> [result |-> <<>>, err |-> "opa request failed"]
      [] OTHER -> [result |-> << [violations |-> <<>>, warnings |-> <<>>] >>,
                   err |-> Nil]

\* MergeOPA taking the verdict from the OPA result alone: without OPA violations
\* the decision is set back to pass
MergeOPAOverriding(builtin, endpoint, opa) ==
    IF endpoint # "" /\ opa.err = Nil /\ opa.result # <<>>
    THEN [builtin EXCEPT
             !.violations = @ \o opa.result[1].violations,
             !.warnings = @ \o opa.result[1].warnings,
             !.decision = IF Len(opa.result[1].violations) > 0 THEN "deny" ELSE "pass"]
    ELSE builtin

\* the OPA block of Engine.Evaluate: the result of evaluateOPA is merged only when
\* the call returned no error
MergeOPA(builtin, endpoint, opa) ==
    IF endpoint # "" /\ opa.err = Nil /\ opa.result # <<>>
    THEN [builtin EXCEPT
             !.violations = @ \o opa.result[1].violations,
             !.warnings = @ \o opa.result[1].warnings,
             !.decision = IF Len(opa.result[1].violations) > 0 THEN "deny" ELSE @]
    ELSE builtin

\* Engine.Evaluate: the result and the error it returns
Evaluate(enginePolicies, endpoint, custom, est, env, opaFails) ==
    [result |->
         MergeOPA(EvaluateFrom([decision |-> "pass", violations |-> <<>>,
                                warnings |-> <<>>, policies_ran |-> 0],
                               enginePolicies \o custom, est, env, 1),
                  endpoint,
                  IF endpoint # "" THEN evaluateOPA(endpoint, opaFails)
                  ELSE [result |-> <<>>, err |-> Nil]),
     err |-> Nil]

-----------------------------------------------------------------------------
(* The estimation endpoint: Server.handleEstimate                          *)

\* the custom policies handleEstimate builds from the request
CustomPolicies(req) ==
    (IF req.cost_limit # <<>>
     THEN << [id |-> "api-cost-limit", type |-> "cost_limit", severity |-> "error",
              threshold |-> req.cost_limit[1], enabled |-> TRUE] >>
     ELSE <<>>)
    \o (IF req.carbon_budget # <<>>
        THEN << [id |-> "api-carbon-budget", type |-> "carbon_budget",
                 severity |-> "error", threshold |-> req.carbon_budget[1],
                 enabled |-> TRUE] >>
        ELSE <<>>)

\* Server.buildEstimateResponse
buildEstimateResponse(est, pol, nodes) ==
    [status |-> 200,
     monthly_cost_p50 |-> StringFixed2(est.monthly_cost_p50),
     monthly_cost_p90 |-> StringFixed2(est.monthly_cost_p90),
     carbon |-> est.carbon,
     confidence |-> est.confidence,
     is_incomplete |-> est.is_incomplete,
     resource_count |-> Len(nodes),
     components_estimated |-> est.components_estimated,
     components_symbolic |-> est.components_symbolic,
     policy_result |-> pol.decision,
     violations |-> pol.violations,
     warnings |-> pol.warnings,
     cost_drivers |->
         [i \in 1..Len(est.cost_drivers) |->
             [id |-> est.cost_drivers[i].id,
              resource_addr |-> est.cost_drivers[i].resource_addr,
              monthly_cost_p50 |-> StringFixed2(est.cost_drivers[i].monthly_cost_p50),
              monthly_cost_p90 |-> StringFixed2(est.cost_drivers[i].monthly_cost_p90),
              confidence |-> est.cost_drivers[i].confidence,
              is_symbolic |-> est.cost_drivers[i].is_symbolic,
              reason |-> est.cost_drivers[i].reason]],
     snapshots_used |-> est.snapshots_used]

\* handleEstimate on the error of Engine.Evaluate: "Policy evaluation is non-fatal"
PolicyResultOrPass(ev) ==
    IF ev.err # Nil
    THEN [decision |-> "pass", violations |-> <<>>,
          warnings |-> <<"policy evaluation failed">>, policies_ran |-> 0]
    ELSE ev.result

handleEstimateRespond(req, dec, est, pol) ==
    [decomposition |-> dec, estimation |-> est, policy |-> pol,
     response |-> buildEstimateResponse(est, pol, req.nodes)]

handleEstimateEvaluate(req, enginePolicies, endpoint, dec, est) ==
    handleEstimateRespond(req, dec, est,
        PolicyResultOrPass(Evaluate(enginePolicies, endpoint, CustomPolicies(req), est,
                                    req.environment, req.opa_fails)))

\* the engine handleEstimate builds has no carbon store; only the components of
\* the decomposition are passed to it
handleEstimateEstimate(req, enginePolicies, endpoint, dec) ==
    handleEstimateEvaluate(req, enginePolicies, endpoint, dec,
                           Estimate(dec.components, req, req.answers, <<>>))

\* handleEstimate after the plan is parsed: decomposition, estimation, policy
\* evaluation, response
handleEstimate(req, enginePolicies, endpoint) ==
    handleEstimateEstimate(req, enginePolicies, endpoint, Decompose(req.nodes))

-----------------------------------------------------------------------------
(* Inputs of the estimation endpoint                                       *)

NodeShapes == {"web", "big", "bare", "key", "ami"}

\* one resource of the plan's graph; a "big" instance depends on the resource before it
GraphNode(shape, i) ==
    [address |-> shape \o ToString(i),
     type |-> CASE shape = "key" -> "aws_kms_key"
                [] shape = "ami" -> "aws_ami"
                [] OTHER -> "aws_instance",
     mode |-> IF shape = "ami" THEN "data" ELSE "managed",
     change |-> "create",
     region |-> "us-east-1",
     dependencies |-> IF shape = "big" /\ i > 1 THEN <<i - 1>> ELSE <<>>,
     attributes |-> CASE shape = "web" -> [instance_type |-> "t3.medium"]
                      [] shape = "big" -> [instance_type |-> "m5.large"]
                      [] OTHER -> EmptyAttrs]

\* the graphs of at most MaxNodes resources, as TopologicalSort orders them
Plans ==
    UNION {{[i \in 1..n |->
                [GraphNode(shapes[i], i) EXCEPT
                    !.dependencies = [k \in DOMAIN @ |-> shapes[@[k]] \o ToString(@[k])]]] :
            shapes \in [1..n -> NodeShapes]} : n \in 0..MaxNodes}

Environments == {"dev", "prod", "production"}

\* cost_limit, carbon_budget (<<>> when the pointer is nil) and include_carbon of a request
Limits ==
    {[cost_limit |-> <<>>, carbon_budget |-> <<>>, include_carbon |-> FALSE],
     [cost_limit |-> <<25>>, carbon_budget |-> <<>>, include_carbon |-> FALSE],
     [cost_limit |-> <<>>, carbon_budget |-> <<1>>, include_carbon |-> TRUE]}

\* what the ResolveRate call of one component can answer on the given catalog:
\* a selected row, no row, or a failure of the query
Answers(snaps, rates, comp, alias) ==
    LET rows == ResolveRate(snaps, rates, comp.cloud, comp.service, comp.product_family,
                            comp.region, comp.attributes,
                            billingPeriodToUnit(comp.billing_period), alias)
    IN (IF rows = {} THEN {NoRate} ELSE {Rate(r) : r \in rows}) \cup {QueryError}

\* the answers to all ResolveRate calls of one request, at most MaxQueryErrors failing
RECURSIVE AnswerSeqs(_, _, _, _, _)
AnswerSeqs(snaps, rates, comps, i, errorsLeft) ==
    IF i > Len(comps) THEN {<<>>}
    ELSE UNION {{<<a>> \o rest :
                    rest \in AnswerSeqs(snaps, rates, comps, i + 1,
                                        IF a = QueryError THEN errorsLeft - 1
                                        ELSE errorsLeft)} :
                a \in {x \in Answers(snaps, rates, comps[i], "default") :
                          x = QueryError => errorsLeft > 0}}

\* policies an operator may add to the engine
AddablePolicies ==
    {[id |-> "team-cost-limit", type |-> "cost_limit", severity |-> "warning",
      threshold |-> 20, enabled |-> TRUE],
     [id |-> "strict-confidence", type |-> "confidence_threshold", severity |-> "error",
      threshold |-> 90, enabled |-> TRUE],
     [id |-> "carbon-cap", type |-> "carbon_budget", severity |-> "error",
      threshold |-> 0, enabled |-> FALSE]}

-----------------------------------------------------------------------------
(* Spec: the estimation endpoint on a loaded catalog                       *)

NoRequest == [status |-> 0]

\* an ingestion worker outside IngestPricing, with the outcome of its last call
Idle(result) == [pc |-> "idle", result |-> result]

\* no reader query has returned yet
NoQuery == [query |-> "none"]

\* the catalog after payload h2 and then payload h1 were ingested for DefaultKey
LoadedSnapshots ==
    [id \in SnapshotIds |->
        CASE id = 1 -> SnapshotRow(DefaultKey, "h2", FALSE, 3)
          [] id = 2 -> SnapshotRow(DefaultKey, "h1", TRUE, 2)
          [] OTHER -> NoRow]

LoadedRates ==
    {RateRow(1, Prices("h2")[i]) : i \in 1..Len(Prices("h2"))}
    \cup {RateRow(2, Prices("h1")[i]) : i \in 1..Len(Prices("h1"))}

Init ==
    /\ pricing_snapshots = LoadedSnapshots
    /\ pricing_rates = LoadedRates
    /\ ingest = [w \in 1..NumWorkers |-> Idle("none")]
    /\ observed = NoQuery
    /\ policies = defaultPolicies
    /\ opaEndpoint = ""
    /\ request = NoRequest
    /\ decomposition = NoRequest
    /\ estimation = NoRequest
    /\ response = NoRequest
    /\ batch = NoRequest
    /\ core = NoRequest
    /\ priceLog = {}
    /\ priceReply = NoRequest
    /\ cancelledAt = 0
    /\ replay = NoRequest
    /\ governance = NoRequest
    /\ tiered = NoRequest
    /\ mapperRun = NoRequest
    /\ engineRun = NoRequest

\* policy.Engine.AddPolicy
AddPolicy ==
    /\ Len(policies) < Len(defaultPolicies) + MaxAddedPolicies
    /\ \E p \in AddablePolicies : policies' = Append(policies, p)
    /\ UNCHANGED <<outsidePipeline, opaEndpoint, request, decomposition, estimation, response>>

\* policy.Engine.WithOPA
WithOPA ==
    /\ opaEndpoint = ""
    /\ opaEndpoint' = "http://opa:8181"
    /\ UNCHANGED <<outsidePipeline, policies, request, decomposition, estimation, response>>

\* what handleEstimate leaves behind for a request
Served(req, out) ==
    /\ request' = req
    /\ decomposition' = out.decomposition
    /\ estimation' = out.estimation
    /\ response' = out.response

EstimateRequest(nodes, env, lim, answers, opaFails) ==
    [status |-> 1, nodes |-> nodes, environment |-> env,
     cost_limit |-> lim.cost_limit, carbon_budget |-> lim.carbon_budget,
     include_carbon |-> lim.include_carbon,
     answers |-> answers, opa_fails |-> opaFails]

\* Server.handleEstimate on a well-formed request
HandleEstimate ==
    /\ request = NoRequest
    /\ \E nodes \in Plans :
          \E dec \in {Decompose(nodes)} :
             \E answers \in AnswerSeqs(pricing_snapshots, pricing_rates,
                                       dec.components, 1, MaxQueryErrors),
                env \in Environments, lim \in Limits,
                opaFails \in (IF opaEndpoint = "" THEN {FALSE} ELSE BOOLEAN) :
                \E req \in {EstimateRequest(nodes, env, lim, answers, opaFails)} :
                   Served(req, handleEstimateEstimate(req, policies, opaEndpoint, dec))
    /\ UNCHANGED <<outsidePipeline, policies, opaEndpoint>>

\* the handler has returned; the server takes the next request
ServeNext ==
    /\ request # NoRequest
    /\ request' = NoRequest
    /\ decomposition' = NoRequest
    /\ estimation' = NoRequest
    /\ response' = NoRequest
    /\ UNCHANGED <<outsidePipeline, policies, opaEndpoint>>

Next == HandleEstimate \/ ServeNext \/ AddPolicy \/ WithOPA

Spec == Init /\ [][Next]_vars

-----------------------------------------------------------------------------
(* Claims about the estimation endpoint (specification Spec)               *)

Served200 == response.status = 200

\* C1: in every estimation result, incomplete = true implies that the aggregate
\* confidence, the total P50 cost, the total P90 cost and the total carbon are all 0.
C1_IncompleteResultIsZeroed ==
    Served200 /\ estimation.is_incomplete =>
        /\ estimation.confidence = 0
        /\ estimation.monthly_cost_p50 = 0
        /\ estimation.monthly_cost_p90 = 0
        /\ estimation.carbon = 0
        /\ response.monthly_cost_p50 = 0
        /\ response.monthly_cost_p90 = 0

\* C2: whenever at least one component of an estimation is symbolic, the returned
\* result has incomplete = true.
C2_SymbolicForcesIncomplete ==
    Served200 /\ (\E i \in DOMAIN response.cost_drivers :
                     response.cost_drivers[i].is_symbolic)
        => response.is_incomplete

\* C3: if the policy evaluator fails (here: the policy endpoint is unreachable), the
\* verdict delivered to the caller is deny, never pass.
C3_EvaluatorFailureDenies ==
    Served200 /\ request.opa_fails => response.policy_result = "deny"

\* the environment the policy engine's incomplete gate treats as production
ProductionClass == {"prod"}

ComponentsOf(address) ==
    {j \in DOMAIN decomposition.components :
        decomposition.components[j].resource_addr = address}

\* C5: for every non-deleted resource node whose type has no registered mapper,
\* decomposition emits exactly one (synthetic) billing component; the node is never
\* silently skipped.
C5_UnsupportedGetsSyntheticComponent ==
    Served200 =>
        \A i \in DOMAIN request.nodes :
            /\ request.nodes[i].mode # "data"
            /\ request.nodes[i].change # "delete"
            /\ findMapper(request.nodes[i].type) = Nil
            => Cardinality(ComponentsOf(request.nodes[i].address)) = 1

\* C6: every critical error raised while an estimation is processed, a critical
\* mapping error of a mapper included, forces incomplete = true in the result.
C6_CriticalErrorForcesIncomplete ==
    Served200 /\ (\/ \E i \in DOMAIN decomposition.mapping_errors :
                        decomposition.mapping_errors[i].is_critical
                  \/ \E i \in DOMAIN estimation.errors :
                        estimation.errors[i].is_critical)
        => response.is_incomplete

\* C7: every driver whose symbolic flag is set has P50 cost 0, P90 cost 0 and
\* confidence 0.
C7_SymbolicDriverIsZero ==
    Served200 =>
        \A i \in DOMAIN estimation.cost_drivers :
            estimation.cost_drivers[i].is_symbolic =>
                /\ estimation.cost_drivers[i].monthly_cost_p50 = 0
                /\ estimation.cost_drivers[i].monthly_cost_p90 = 0
                /\ estimation.cost_drivers[i].confidence = 0

-----------------------------------------------------------------------------
(* CatalogSpec: concurrent IngestPricing calls and readers on the catalog  *)

Workers == 1..NumWorkers

\* _version DEFAULT 1 of the schema
DefaultVersion == 1

CatalogInit ==
    /\ pricing_snapshots = [id \in SnapshotIds |-> NoRow]
    /\ pricing_rates = {}
    /\ ingest = [w \in Workers |-> Idle("none")]
    /\ observed = NoQuery
    /\ policies = defaultPolicies
    /\ opaEndpoint = ""
    /\ request = NoRequest
    /\ decomposition = NoRequest
    /\ estimation = NoRequest
    /\ response = NoRequest
    /\ batch = NoRequest
    /\ core = NoRequest
    /\ priceLog = {}
    /\ priceReply = NoRequest
    /\ cancelledAt = 0
    /\ replay = NoRequest
    /\ governance = NoRequest
    /\ tiered = NoRequest
    /\ mapperRun = NoRequest
    /\ engineRun = NoRequest

\* the statement a worker is about to run returns an error: IngestPricing returns it
Returns(w, result) == ingest' = [ingest EXCEPT ![w] = Idle(result)]

\* IngestPricing up to Store.CreateSnapshot: a snapshot with a fresh id (uuid.New)
\* is inserted inactive; prev keeps the snapshots active for the key at that moment
CreateSnapshot(w) ==
    /\ ingest[w].pc = "idle"
    /\ \E key \in Keys, hash \in Hashes, id \in SnapshotIds :
          /\ ~pricing_snapshots[id].exists
          /\ \A j \in SnapshotIds : j < id => pricing_snapshots[j].exists
          /\ pricing_snapshots' =
                 [pricing_snapshots EXCEPT
                     ![id] = SnapshotRow(key, hash, FALSE, DefaultVersion)]
          /\ ingest' = [ingest EXCEPT
                           ![w] = [pc |-> "upsert", key |-> key, hash |-> hash,
                                   id |-> id, i |-> 1,
                                   prev |-> GetActiveSnapshot(pricing_snapshots, key)]]
    /\ UNCHANGED <<pricing_rates, observed, outsideCatalog>>

\* Store.UpsertRateKey for the next price of the batch; rate keys are identified with
\* their content, which the rate rows carry
UpsertRateKey(w) ==
    /\ ingest[w].pc = "upsert"
    /\ ingest' = [ingest EXCEPT
                     ![w] = IF ingest[w].i < Len(Prices(ingest[w].hash))
                            THEN [@ EXCEPT !.i = @ + 1]
                            ELSE [@ EXCEPT !.pc = "bulk"]]
    /\ UNCHANGED <<pricing_snapshots, pricing_rates, observed, outsideCatalog>>

\* Store.BulkCreateRates: the batch of rates of the snapshot is sent
BulkCreateRates(w) ==
    /\ ingest[w].pc = "bulk"
    /\ pricing_rates' = pricing_rates \cup
           {RateRow(ingest[w].id, Prices(ingest[w].hash)[i]) :
               i \in 1..Len(Prices(ingest[w].hash))}
    /\ ingest' = [ingest EXCEPT ![w] = [@ EXCEPT !.pc = "get"]]
    /\ UNCHANGED <<pricing_snapshots, observed, outsideCatalog>>

\* Store.ActivateSnapshot, first statement: GetSnapshot
GetSnapshot(w) ==
    /\ ingest[w].pc = "get"
    /\ IF pricing_snapshots[ingest[w].id].exists
       THEN ingest' = [ingest EXCEPT ![w] = [@ EXCEPT !.pc = "deactivate"]]
       ELSE Returns(w, "error")
    /\ UNCHANGED <<pricing_snapshots, pricing_rates, observed, outsideCatalog>>

\* Store.ActivateSnapshot, second statement: every other active snapshot of the
\* same cloud, region and alias gets a new version with is_active = 0
DeactivateOthers(w) ==
    /\ ingest[w].pc = "deactivate"
    /\ pricing_snapshots' =
           [id \in SnapshotIds |->
               IF /\ id \in GetActiveSnapshot(pricing_snapshots, ingest[w].key)
                  /\ id # ingest[w].id
               THEN [pricing_snapshots[id] EXCEPT !.is_active = FALSE,
                                                  !.version = @ + 1]
               ELSE pricing_snapshots[id]]
    /\ ingest' = [ingest EXCEPT ![w] = [@ EXCEPT !.pc = "activate"]]
    /\ UNCHANGED <<pricing_rates, observed, outsideCatalog>>

\* Store.ActivateSnapshot, third statement: the target snapshot gets a new version
\* with is_active = 1; IngestPricing returns success
Activate(w) ==
    /\ ingest[w].pc = "activate"
    /\ pricing_snapshots' =
           [pricing_snapshots EXCEPT
               ![ingest[w].id] = [@ EXCEPT !.is_active = TRUE, !.version = @ + 1]]
    /\ Returns(w, "ok")
    /\ UNCHANGED <<pricing_rates, observed, outsideCatalog>>

\* any statement of IngestPricing fails (CreateSnapshot included): the call returns
\* the error and leaves what it has written
StatementFails(w) ==
    /\ ingest[w] # Idle("error")
    /\ Returns(w, "error")
    /\ UNCHANGED <<pricing_snapshots, pricing_rates, observed, outsideCatalog>>

\* whether some snapshot of the key has been activated: activation is the only
\* statement that writes a second version of a row
ActivatedBefore(snaps, key) ==
    \E id \in SnapshotIds :
        /\ snaps[id].exists
        /\ snaps[id].cloud = key.cloud
        /\ snaps[id].region = key.region
        /\ snaps[id].provider_alias = key.alias
        /\ snaps[id].version > DefaultVersion

\* whether some worker is inside ActivateSnapshot for the key
Activating(key) ==
    \E w \in Workers : ingest[w].pc \in {"deactivate", "activate"} /\ ingest[w].key = key

\* what a reader keeps of a query: the answer, and the two facts above at that moment
Observation(query, key, found, value) ==
    [query |-> query, key |-> key, found |-> found, value |-> value,
     activated_before |-> ActivatedBefore(pricing_snapshots, key),
     activating |-> Activating(key)]

\* a reader calls Store.GetActiveSnapshot: one of the selected rows (LIMIT 1) or nil
ReadActiveSnapshot ==
    /\ \E key \in Keys :
          \E id \in (IF GetActiveSnapshot(pricing_snapshots, key) = {} THEN {0}
                     ELSE GetActiveSnapshot(pricing_snapshots, key)) :
             observed' = Observation("GetActiveSnapshot", key, id # 0, id)
    /\ UNCHANGED <<pricing_snapshots, pricing_rates, ingest, outsideCatalog>>

\* a reader calls Store.ResolveRate for the t3.medium compute rate of a region
ReadRate ==
    /\ \E key \in Keys :
          \E a \in Answers(pricing_snapshots, pricing_rates,
                           [cloud |-> key.cloud, service |-> "AmazonEC2",
                            product_family |-> "Compute Instance",
                            region |-> key.region,
                            attributes |-> ComputeAttrs("t3.medium"),
                            billing_period |-> "hourly"],
                           key.alias) \ {QueryError} :
             observed' = Observation("ResolveRate", key, a # NoRate,
                                     IF a = NoRate THEN 0 ELSE a.price)
    /\ UNCHANGED <<pricing_snapshots, pricing_rates, ingest, outsideCatalog>>

CatalogNext ==
    \/ \E w \in Workers :
          \/ CreateSnapshot(w)
          \/ UpsertRateKey(w)
          \/ BulkCreateRates(w)
          \/ GetSnapshot(w)
          \/ DeactivateOthers(w)
          \/ Activate(w)
          \/ StatementFails(w)
    \/ ReadActiveSnapshot
    \/ ReadRate

CatalogSpec == CatalogInit /\ [][CatalogNext]_vars

-----------------------------------------------------------------------------
(* Claims about the price catalog (specification CatalogSpec)              *)

\* C8: after any sequence and interleaving of ingestions and activations, at most
\* one snapshot is active for each (provider, region, alias).
C8_AtMostOneActive ==
    \A key \in Keys : Cardinality(GetActiveSnapshot(pricing_snapshots, key)) <= 1

\* C9: a reader that fetches the active snapshot or resolves a rate while an
\* activation for the same (provider, region, alias) is running gets the old or the
\* new snapshot: when a snapshot had been activated before, it never finds none.
C9_ReaderSeesOldOrNew ==
    observed.query # "none" /\ observed.activating /\ observed.activated_before
        => observed.found

\* C10: ingesting the same payload (same content hash) twice for the same
\* (provider, region, alias) creates no second snapshot, so no two ingested
\* snapshots of one key carry the same hash and the active id stays the same.
C10_SamePayloadSameSnapshot ==
    \A i, j \in SnapshotIds :
        /\ pricing_snapshots[i].exists /\ pricing_snapshots[j].exists
        /\ pricing_snapshots[i].version > DefaultVersion
        /\ pricing_snapshots[j].version > DefaultVersion
        /\ pricing_snapshots[i].cloud = pricing_snapshots[j].cloud
        /\ pricing_snapshots[i].region = pricing_snapshots[j].region
        /\ pricing_snapshots[i].provider_alias = pricing_snapshots[j].provider_alias
        /\ pricing_snapshots[i].hash = pricing_snapshots[j].hash
        => i = j

-----------------------------------------------------------------------------
(* Claims about the order of policy decisions (specification Spec)         *)

Rank(decision) ==
    CASE decision = "pass" -> 0
      [] decision = "warn" -> 1
      [] decision = "deny" -> 2

\* the decision Engine.Evaluate holds after the first k policies of its list
DecisionAfter(allPolicies, est, env, k) ==
    EvaluateFrom([decision |-> "pass", violations |-> <<>>, warnings |-> <<>>,
                  policies_ran |-> 0],
                 SubSeq(allPolicies, 1, k), est, env, 1).decision

\* the rule of C11 for the k-th policy of the list
DecisionStepOk(allPolicies, est, env, k) ==
    LET before == DecisionAfter(allPolicies, est, env, k - 1)
        after == DecisionAfter(allPolicies, est, env, k)
        p == allPolicies[k]
        found == evaluatePolicy(p, est, env)
    IN /\ Rank(before) <= Rank(after)
       /\ before = "deny" => after = "deny"
       /\ ~p.enabled \/ found = Nil => after = before
       /\ p.enabled /\ found = "violation" /\ p.severity = "error" => after = "deny"
       /\ p.enabled /\ found # Nil /\ ~(found = "violation" /\ p.severity = "error")
              => after = (IF before = "deny" THEN "deny" ELSE "warn")

DecisionMonotone(allPolicies, est, env, verdict) ==
    /\ DecisionAfter(allPolicies, est, env, 0) = "pass"
    /\ \A k \in 1..Len(allPolicies) : DecisionStepOk(allPolicies, est, env, k)
    /\ Rank(DecisionAfter(allPolicies, est, env, Len(allPolicies))) <= Rank(verdict)

\* C11: while the policies of a request are evaluated the decision starts at pass
\* and only moves upward in pass < warn < deny: an error-severity violation sets
\* deny, any other violation or warning sets warn unless the decision is deny, and
\* nothing evaluated after a deny (the OPA block included) changes it.
C11_DecisionOnlyMovesUp ==
    [][request = NoRequest /\ request' # NoRequest =>
          DecisionMonotone(policies \o CustomPolicies(request'), estimation',
                           request'.environment, response'.policy_result)]_vars

\* C11 witness: a policy violated at warning severity was evaluated after the
\* incomplete gate had set deny, with OPA configured, and the verdict stayed deny.
C11_Witness ==
    /\ Served200
    /\ opaEndpoint # ""
    /\ response.violations = <<"prod-incomplete", "team-cost-limit">>
    /\ response.policy_result = "deny"

-----------------------------------------------------------------------------
(* The in-process pipeline of the fiac command: semantics, usage, pricing,  *)
(* estimation, policy.  Quantities are in tenths of a unit, prices and      *)
(* carbon intensities in 1/10000, costs and carbon in 1/100000, confidence  *)
(* in whole percent rounded down.                                           *)

\* a natural number as base-1000 limbs, least significant first, times k <= 1000
RECURSIVE MulLimbs(_, _, _, _)
MulLimbs(a, k, i, carry) ==
    IF i > Len(a) THEN (IF carry = 0 THEN <<>> ELSE <<carry>>)
    ELSE <<(a[i] * k + carry) % 1000>>
         \o MulLimbs(a, k, i + 1, (a[i] * k + carry) \div 1000)

RECURSIVE ProductLimbs(_, _)
ProductLimbs(scores, i) ==
    IF i > Len(scores) THEN <<1>>
    ELSE MulLimbs(ProductLimbs(scores, i + 1), scores[i], 1, 0)

RECURSIVE LimbsLeq(_, _, _)
LimbsLeq(a, b, i) ==
    IF i = 0 THEN TRUE
    ELSE IF a[i] # b[i] THEN a[i] < b[i]
    ELSE LimbsLeq(a, b, i - 1)

\* g^n <= the product of the scores
PowerLeq(g, scores) ==
    LET a == ProductLimbs([i \in 1..Len(scores) |-> g], 1)
        b == ProductLimbs(scores, 1)
    IN IF Len(a) # Len(b) THEN Len(a) < Len(b) ELSE LimbsLeq(a, b, Len(a))

RECURSIVE MinScore(_, _)
MinScore(scores, i) ==
    IF i = Len(scores) THEN scores[i] ELSE Min2(scores[i], MinScore(scores, i + 1))

RECURSIVE MaxScore(_, _)
MaxScore(scores, i) ==
    IF i = Len(scores) THEN scores[i]
    ELSE IF scores[i] > MaxScore(scores, i + 1) THEN scores[i]
    ELSE MaxScore(scores, i + 1)

\* confidence.Aggregate: the geometric mean, which lies between the least and the
\* greatest score; 0 for no scores or a score of 0
Aggregate(scores) ==
    IF Len(scores) = 0 \/ \E i \in 1..Len(scores) : scores[i] <= 0 THEN 0
    ELSE CHOOSE g \in MinScore(scores, 1)..MaxScore(scores, 1) :
             /\ PowerLeq(g, scores)
             /\ g = MaxScore(scores, 1) \/ ~PowerLeq(g + 1, scores)

\* the resource changes of a plan: an instance of a catalogued type, one in another
\* region, one without instance_type, one with a root volume, one of a type the
\* price stub does not hold, a resource type without mapper, a deleted instance
ChangeShapes == {"web", "eu", "tiny", "disk", "odd", "key", "gone"}

\* graph.buildResourceNode on the i-th resource change
buildResourceNode(shape, i) ==
    [id |-> shape \o ToString(i),
     type |-> IF shape = "key" THEN "aws_kms_key" ELSE "aws_instance",
     change_action |-> IF shape = "gone" THEN "delete" ELSE "create",
     region |-> IF shape = "eu" THEN "eu-west-1" ELSE "",
     instance_type |-> CASE shape \in {"web", "eu", "disk", "gone"} -> "t3.medium"
                         [] shape = "odd" -> "c5.large"
                         [] OTHER -> "",
     root_block_device |-> IF shape = "disk"
                           THEN << [volume_size |-> 8] >> ELSE <<>>]

\* graph.extractProviderContext: the region of the first resource change
extractProviderContext(nodes) ==
    IF Len(nodes) > 0 /\ nodes[1].region # "" THEN nodes[1].region ELSE "us-east-1"

ResourcePlans ==
    UNION {[1..n -> ChangeShapes] : n \in 0..MaxNodes}

\* semantics.EC2Mapper.Map
EC2Mapper(node) ==
    << [id |-> node.id \o ":compute", resource_id |-> node.id, type |-> "compute",
        usage_type |-> "on_demand", confidence |-> 90,
        instance_type |-> IF node.instance_type = "" THEN "t3.micro"
                          ELSE node.instance_type,
        volume_type |-> "", volume_size |-> 0] >>
    \o (IF Len(node.root_block_device) > 0
        THEN << [id |-> node.id \o ":root_storage", resource_id |-> node.id,
                 type |-> "storage", usage_type |-> "provisioned", confidence |-> 95,
                 instance_type |-> "", volume_type |-> "gp3",
                 volume_size |-> node.root_block_device[1].volume_size] >>
        ELSE <<>>)
    \o << [id |-> node.id \o ":network", resource_id |-> node.id, type |-> "network",
           usage_type |-> "on_demand", confidence |-> 60,
           instance_type |-> "", volume_type |-> "", volume_size |-> 0] >>

\* semantics.Engine.Process, from the i-th node on
RECURSIVE ProcessFrom(_, _, _)
ProcessFrom(result, nodes, i) ==
    IF i > Len(nodes) THEN result
    ELSE ProcessFrom(
             CASE nodes[i].change_action = "delete" -> result
               [] nodes[i].type # "aws_instance" ->
                    [result EXCEPT !.mapping_errors =
                         Append(@, [code |-> "UNKNOWN_RESOURCE",
                                    resource_id |-> nodes[i].id])]
               [] OTHER ->
                    [result EXCEPT !.components = @ \o EC2Mapper(nodes[i])],
             nodes, i + 1)

Process(nodes) ==
    ProcessFrom([components |-> <<>>, mapping_errors |-> <<>>], nodes, 1)

\* usage.NewPredictor: the usage profiles
UsageProfiles ==
    [dev |-> [name |-> "Development", utilization |-> 2, growth |-> 0,
              variance |-> 13, base_confidence |-> 70],
     staging |-> [name |-> "Staging", utilization |-> 4, growth |-> 5,
                  variance |-> 14, base_confidence |-> 65],
     prod |-> [name |-> "Production", utilization |-> 7, growth |-> 10,
               variance |-> 15, base_confidence |-> 60]]

\* usage.Predictor.predictComponent
predictComponent(comp, profile) ==
    LET base == IF comp.confidence = 0 THEN profile.base_confidence
                ELSE comp.confidence
        baseGB == CASE profile.name = "Production" -> 100
                    [] profile.name = "Staging" -> 50
                    [] OTHER -> 10
    IN CASE comp.type = "compute" ->
              [component_id |-> comp.id, metric |-> "hours",
               p50 |-> HoursPerMonth * profile.utilization,
               p90 |-> (HoursPerMonth * profile.utilization * profile.variance) \div 10,
               confidence |-> Aggregate(<<base, profile.base_confidence>>)]
         [] comp.type = "storage" ->
              [component_id |-> comp.id, metric |-> "gb_months",
               p50 |-> 10 * comp.volume_size,
               p90 |-> (10 * comp.volume_size * (100 + profile.growth)) \div 100,
               confidence |-> 95]
         [] OTHER ->
              [component_id |-> comp.id, metric |-> "gb_transfer",
               p50 |-> baseGB * profile.utilization,
               p90 |-> baseGB * profile.utilization * 2,
               confidence |-> 60]

\* the sum of the predictions' confidences
RECURSIVE ConfidenceSum(_, _)
ConfidenceSum(predictions, i) ==
    IF i > Len(predictions) THEN 0
    ELSE predictions[i].confidence + ConfidenceSum(predictions, i + 1)

PredictWith(components, environment, profile) ==
    LET predictions == [i \in 1..Len(components) |->
                            predictComponent(components[i], profile)]
    IN [predictions |-> predictions,
        environment |-> environment,
        profile |-> profile.name,
        average_confidence |-> IF Len(predictions) > 0
                               THEN ConfidenceSum(predictions, 1) \div Len(predictions)
                               ELSE 0,
        unknown_environment |-> FALSE]

\* usage.Predictor.Predict: an environment without profile gets the dev profile
Predict(components, environment) ==
    PredictWith(components, environment,
                IF environment \in DOMAIN UsageProfiles
                THEN UsageProfiles[environment] ELSE UsageProfiles["dev"])

\* pricing.NewPriceStore: the stub price entries, all of region us-east-1
NewPriceStore ==
    {[sku |-> "ec2:t3.micro:ondemand", region |-> "us-east-1", price |-> 104, carbon |-> 50],
     [sku |-> "ec2:t3.small:ondemand", region |-> "us-east-1", price |-> 208, carbon |-> 100],
     [sku |-> "ec2:t3.medium:ondemand", region |-> "us-east-1", price |-> 416, carbon |-> 200],
     [sku |-> "ec2:t3.large:ondemand", region |-> "us-east-1", price |-> 832, carbon |-> 400],
     [sku |-> "ec2:m5.large:ondemand", region |-> "us-east-1", price |-> 960, carbon |-> 500],
     [sku |-> "ec2:m5.xlarge:ondemand", region |-> "us-east-1", price |-> 1920, carbon |-> 1000],
     [sku |-> "ebs:gp3:storage", region |-> "us-east-1", price |-> 800, carbon |-> 10],
     [sku |-> "ebs:gp2:storage", region |-> "us-east-1", price |-> 1000, carbon |-> 10],
     [sku |-> "ebs:io1:storage", region |-> "us-east-1", price |-> 1250, carbon |-> 20],
     [sku |-> "ec2:data-transfer:out", region |-> "us-east-1", price |-> 900, carbon |-> 5],
     [sku |-> "rds:mysql:db.t3.micro:ondemand", region |-> "us-east-1", price |-> 170, carbon |-> 80],
     [sku |-> "rds:mysql:db.t3.small:ondemand", region |-> "us-east-1", price |-> 340, carbon |-> 160]}

\* strings.Split(sku, ":")[0] for the keys of the stub and of the components
SkuPrefix(sku) ==
    CASE sku \in {"ebs:gp3:storage", "ebs:gp2:storage", "ebs:io1:storage"} -> "ebs"
      [] sku \in {"rds:mysql:db.t3.micro:ondemand", "rds:mysql:db.t3.small:ondemand"} -> "rds"
      [] OTHER -> "ec2"

\* pricing.matchSKU: equal keys, equal first ten characters, or the stored key holds
\* the query's prefix; over these keys the last condition covers the second
matchSKU(query, stored) ==
    stored = query \/ SkuPrefix(stored) = SkuPrefix(query)

NoEntry == [sku |-> "", region |-> "", price |-> 0, carbon |-> 0]

\* the entry of a key's region map for a region, falling back to us-east-1
EntryOrDefaultRegion(store, sku, region) ==
    IF \E e \in store : e.sku = sku /\ e.region = region
    THEN {e \in store : e.sku = sku /\ e.region = region}
    ELSE {e \in store : e.sku = sku /\ e.region = "us-east-1"}

\* pricing.PriceStore.Get: the results the call can return.  A key the store does
\* not hold is matched against the stored keys in map iteration order, so any
\* matching key with an entry may be the one returned.
PriceStoreGet(store, sku, region) ==
    IF \E e \in store : e.sku = sku
    THEN IF EntryOrDefaultRegion(store, sku, region) # {}
         THEN {[entry |-> e, exists |-> TRUE] :
                   e \in EntryOrDefaultRegion(store, sku, region)}
         ELSE {[entry |-> NoEntry, exists |-> FALSE]}
    ELSE IF \E k \in store : matchSKU(sku, k.sku)
                                /\ EntryOrDefaultRegion(store, k.sku, region) # {}
         THEN {[entry |-> e, exists |-> TRUE] :
                   e \in UNION {EntryOrDefaultRegion(store, k.sku, region) :
                                    k \in {x \in store : matchSKU(sku, x.sku)}}}
         ELSE {[entry |-> NoEntry, exists |-> FALSE]}

\* pricing.Resolver.buildSKUKey
buildSKUKey(comp) ==
    CASE comp.type = "compute" -> "ec2:" \o comp.instance_type \o ":ondemand"
      [] comp.type = "storage" -> "ebs:" \o comp.volume_type \o ":storage"
      [] OTHER -> "ec2:data-transfer:out"

ResolvedPrice(comp, got) ==
    [component_id |-> comp.id, sku_id |-> got.entry.sku,
     price_per_unit |-> got.entry.price, carbon_intensity |-> got.entry.carbon,
     region |-> got.entry.region, found |-> got.exists]

\* pricing.Resolver.resolveComponent: the lookup in the region and, when it finds
\* nothing, the lookup in us-east-1
resolveComponent(store, comp, region) ==
    UNION {IF got.exists THEN {ResolvedPrice(comp, got)}
           ELSE {ResolvedPrice(comp, again) :
                     again \in PriceStoreGet(store, buildSKUKey(comp), "us-east-1")} :
               got \in PriceStoreGet(store, buildSKUKey(comp), region)}

AddPrice(result, comp, price) ==
    IF price.found THEN [result EXCEPT !.prices = Append(@, price)]
    ELSE [result EXCEPT !.warnings = Append(@, "Price not found for " \o comp.id)]

\* pricing.Resolver.Resolve: the results it can return
RECURSIVE ResolveFrom(_, _, _, _, _)
ResolveFrom(results, store, components, region, i) ==
    IF i > Len(components) THEN results
    ELSE ResolveFrom({AddPrice(r, components[i], price) :
                          r \in results,
                          price \in resolveComponent(store, components[i], region)},
                     store, components, region, i + 1)

Resolve(components, region) ==
    ResolveFrom({[prices |-> <<>>, warnings |-> <<>>]}, NewPriceStore, components,
                region, 1)

\* the last element of a list with the component's id: Go's map built from the list
ByComponent(list, id) ==
    list[CHOOSE i \in 1..Len(list) :
             /\ list[i].component_id = id
             /\ \A j \in (i + 1)..Len(list) : list[j].component_id # id]

HasComponent(list, id) == \E i \in 1..Len(list) : list[i].component_id = id

RECURSIVE LineageCost(_, _, _)
LineageCost(lineage, resource, i) ==
    IF i > Len(lineage) THEN 0
    ELSE (IF lineage[i].resource_id = resource THEN lineage[i].monthly_cost ELSE 0)
         + LineageCost(lineage, resource, i + 1)

\* estimation.Calculator.extractDrivers: one driver per resource of the lineage,
\* collected in map iteration order and sorted by monthly cost descending, at most
\* five of them; the orders the call can return
extractDrivers(lineage, total) ==
    LET ids == {lineage[i].resource_id : i \in 1..Len(lineage)}
        n == Cardinality(ids)
        driver(id) == [resource_id |-> id,
                       monthly_cost |-> LineageCost(lineage, id, 1),
                       percentage |-> (LineageCost(lineage, id, 1) * 100) \div total]
    IN IF total = 0 THEN {<<>>}
       ELSE {SubSeq([i \in 1..n |-> driver(order[i])], 1, Min2(n, 5)) :
                 order \in {f \in [1..n -> ids] :
                                /\ \A i, j \in 1..n : i # j => f[i] # f[j]
                                /\ \A i \in 1..(n - 1) :
                                       LineageCost(lineage, f[i], 1)
                                           >= LineageCost(lineage, f[i + 1], 1)}}

\* the loop of CalculateFromComponents over the components, from the i-th on
RECURSIVE CalculateFrom(_, _, _, _, _)
CalculateFrom(acc, components, usage, prices, i) ==
    IF i > Len(components) THEN acc
    ELSE CalculateFrom(
             CASE ~HasComponent(usage.predictions, components[i].id) ->
                    [acc EXCEPT !.missing = TRUE,
                                !.errors = Append(@, [code |-> "MISSING_USAGE",
                                      resource_id |-> components[i].resource_id])]
               [] ~HasComponent(prices.prices, components[i].id) ->
                    [acc EXCEPT !.missing = TRUE,
                                !.errors = Append(@, [code |-> "MISSING_PRICE",
                                      resource_id |-> components[i].resource_id])]
               [] OTHER ->
                    [acc EXCEPT
                        !.p50 = @ + ByComponent(usage.predictions, components[i].id).p50
                                    * ByComponent(prices.prices, components[i].id).price_per_unit,
                        !.p90 = @ + ByComponent(usage.predictions, components[i].id).p90
                                    * ByComponent(prices.prices, components[i].id).price_per_unit,
                        !.carbon = @ + ByComponent(usage.predictions, components[i].id).p50
                                    * ByComponent(prices.prices, components[i].id).carbon_intensity,
                        !.confidences = Append(@,
                              ByComponent(usage.predictions, components[i].id).confidence),
                        !.lineage = Append(@,
                              [resource_id |-> components[i].resource_id,
                               component |-> components[i].type,
                               sku |-> ByComponent(prices.prices, components[i].id).sku_id,
                               region |-> ByComponent(prices.prices, components[i].id).region,
                               monthly_cost |->
                                   ByComponent(usage.predictions, components[i].id).p50
                                   * ByComponent(prices.prices, components[i].id).price_per_unit])],
             components, usage, prices, i + 1)

CalculationResult(acc, drivers) ==
    [total_cost_p50 |-> acc.p50, total_cost_p90 |-> acc.p90,
     total_carbon |-> acc.carbon, drivers |-> drivers,
     confidence_score |-> IF Len(acc.confidences) > 0
                          THEN Aggregate(acc.confidences) ELSE 0,
     is_incomplete |-> FALSE, errors |-> acc.errors, lineage |-> acc.lineage]

IncompleteResult(errors, lineage) ==
    [total_cost_p50 |-> 0, total_cost_p90 |-> 0, total_carbon |-> 0,
     drivers |-> <<>>, confidence_score |-> 0, is_incomplete |-> TRUE,
     errors |-> errors, lineage |-> lineage]

CalculateAfterLoop(acc) ==
    IF acc.missing THEN {IncompleteResult(acc.errors, acc.lineage)}
    ELSE {CalculationResult(acc, drivers) :
              drivers \in extractDrivers(acc.lineage, acc.p50)}

\* estimation.Calculator.CalculateFromComponents: the results it can return
CalculateFromComponents(semantics, usage, prices) ==
    IF Len(semantics.mapping_errors) > 0
    THEN {IncompleteResult(semantics.mapping_errors, <<>>)}
    ELSE CalculateAfterLoop(
             CalculateFrom([p50 |-> 0, p90 |-> 0, carbon |-> 0, confidences |-> <<>>,
                            lineage |-> <<>>, errors |-> <<>>, missing |-> FALSE],
                           semantics.components, usage, prices, 1))

\* the rego modules of package fiac: what data.fiac.deny and data.fiac.warn hold
\* for an input
RegoDeny(file, est) ==
    CASE file = "budget.rego" ->
           IF est.total_cost_p90 > 10000 * 100000
           THEN <<"Monthly cost P90 exceeds $10,000 budget">> ELSE <<>>
      [] file = "carbon.rego" ->
           IF est.total_carbon > 1000 * 100000
           THEN <<"Carbon footprint exceeds 1000 kg limit">> ELSE <<>>
      [] OTHER ->
           (IF est.confidence_score < 50
            THEN <<"Confidence score too low for approval">> ELSE <<>>)
           \o (IF est.is_incomplete THEN <<"Incomplete estimate">> ELSE <<>>)

RegoWarn(file, est) ==
    CASE file = "budget.rego" ->
           IF est.total_cost_p90 > 5000 * 100000 /\ est.total_cost_p90 <= 10000 * 100000
           THEN <<"Monthly cost P90 approaching budget limit">> ELSE <<>>
      [] file = "carbon.rego" ->
           IF est.total_carbon > 500 * 100000 /\ est.total_carbon <= 1000 * 100000
           THEN <<"Carbon footprint approaching limit">> ELSE <<>>
      [] OTHER ->
           IF est.confidence_score < 80 THEN <<"Low confidence score">> ELSE <<>>

RECURSIVE EvaluateFiles(_, _, _, _)
EvaluateFiles(result, files, est, i) ==
    IF i > Len(files) THEN [result EXCEPT !.passed = Len(result.denials) = 0]
    ELSE EvaluateFiles([result EXCEPT
                            !.denials = @ \o RegoDeny(files[i], est),
                            !.warnings = @ \o RegoWarn(files[i], est)],
                       files, est, i + 1)

\* policy.Evaluator.Evaluate on the policies directory: its result (none on an
\* error) and its error
EvaluatorEvaluate(est, dir) ==
    CASE est.is_incomplete ->
           [result |-> << [denials |-> <<"BLOCKED: Estimation is incomplete">>,
                           warnings |-> <<>>, passed |-> FALSE] >>,
            err |-> Nil]
      [] dir.state = "glob_error" ->
           [result |-> <<>>, err |-> "FAIL-CLOSED: cannot list policies"]
      [] Len(dir.files) = 0 ->
           [result |-> << [denials |-> <<>>,
                           warnings |-> <<"No policies found - defaulting to pass">>,
                           passed |-> TRUE] >>,
            err |-> Nil]
      [] dir.state = "read_error" ->
           [result |-> <<>>, err |-> "FAIL-CLOSED: cannot read policy"]
      [] dir.state = "eval_error" ->
           [result |-> <<>>, err |-> "FAIL-CLOSED: policy evaluation failed"]
      [] OTHER ->
           [result |-> << EvaluateFiles([denials |-> <<>>, warnings |-> <<>>,
                                          passed |-> TRUE], dir.files, est, 1) >>,
            err |-> Nil]

-----------------------------------------------------------------------------
(* The command-line tools: fiac estimate and terracost estimate             *)

ExitSuccess == 0
ExitPolicyDeny == 1
ExitPolicyWarn == 2
ExitParseError == 10
ExitEstimateError == 11
ExitIncomplete == 20

BatchEnvironments == {"dev", "prod", "qa"}

\* the --policies directory: whether it can be listed and read, and its rego files
\* in the order filepath.Glob returns them
PolicyDirs ==
    {[state |-> "ok", files |-> f] :
         f \in {<<>>, <<"budget.rego">>, <<"confidence.rego">>,
                <<"budget.rego", "carbon.rego", "confidence.rego">>}}
    \cup {[state |-> st, files |-> <<"budget.rego", "carbon.rego", "confidence.rego">>] :
              st \in {"glob_error", "read_error", "eval_error"}}

\* the verdict of the fiac evaluator's outcome
FiacVerdict(pol) ==
    CASE pol.err # Nil -> "deny"
      [] Len(pol.result[1].denials) > 0 -> "deny"
      [] Len(pol.result[1].warnings) > 0 -> "warn"
      [] OTHER -> "pass"

\* fiac runEstimate: the exit code after the plan is parsed
fiacExitCode(usage, est, pol) ==
    CASE usage.unknown_environment -> ExitEstimateError
      [] pol.err # Nil -> ExitPolicyDeny
      [] est.is_incomplete -> ExitIncomplete
      [] Len(pol.result[1].denials) > 0 -> ExitPolicyDeny
      [] Len(pol.result[1].warnings) > 0 -> ExitPolicyWarn
      [] OTHER -> ExitSuccess

\* a finished fiac invocation whose plan was parsed
FiacFinished(inv, sem, usage, prices, est, pol) ==
    [status |-> 2, cli |-> "fiac", input |-> inv,
     parse_error |-> FALSE,
     estimate_error |-> usage.unknown_environment,
     environment |-> inv.environment, profile |-> usage.profile,
     region |-> extractProviderContext(inv.nodes),
     components |-> Len(sem.components),
     prices |-> prices.prices,
     is_incomplete |-> est.is_incomplete,
     drivers |-> est.drivers,
     total_cost_p50 |-> est.total_cost_p50,
     total_cost_p90 |-> est.total_cost_p90,
     total_carbon |-> est.total_carbon,
     confidence_score |-> est.confidence_score,
     verdict |-> IF usage.unknown_environment THEN "none" ELSE FiacVerdict(pol),
     exit_code |-> fiacExitCode(usage, est, pol)]

\* a fiac invocation without --plan, with an unreadable or a malformed plan file
FiacParseError(inv) ==
    [status |-> 2, cli |-> "fiac", input |-> inv,
     parse_error |-> TRUE, estimate_error |-> FALSE,
     environment |-> inv.environment, profile |-> "", region |-> "",
     components |-> 0, prices |-> <<>>, is_incomplete |-> FALSE, drivers |-> <<>>,
     total_cost_p50 |-> 0, total_cost_p90 |-> 0, total_carbon |-> 0,
     confidence_score |-> 0, verdict |-> "none", exit_code |-> ExitParseError]

\* graph.ParseTerraformPlan: one node per resource change
FiacNodes(changes) == [i \in 1..Len(changes) |-> buildResourceNode(changes[i], i)]

FiacInvocation(plan, changes, env, dir) ==
    [plan |-> plan, nodes |-> FiacNodes(changes),
     environment |-> env, policies_dir |-> dir]

\* fiac runEstimate with the results of the pricing and estimation steps chosen
fiacRunEstimate(inv, sem, usage, prices, est) ==
    FiacFinished(inv, sem, usage, prices, est,
                 EvaluatorEvaluate(est, inv.policies_dir))

\* fiac estimate --plan ... --env ... --policies ...
FiacEstimate ==
    /\ batch = NoRequest
    /\ \/ \E plan \in {"no_flag", "unreadable", "malformed"}, env \in BatchEnvironments :
             batch' = FiacParseError(
                          FiacInvocation(plan, <<>>, env, [state |-> "ok", files |-> <<>>]))
       \/ \E changes \in ResourcePlans, env \in BatchEnvironments :
             \E sem \in {Process(FiacNodes(changes))} :
                \E usage \in {Predict(sem.components, env)},
                   prices \in Resolve(sem.components,
                                      extractProviderContext(FiacNodes(changes))) :
                   \E est \in CalculateFromComponents(sem, usage, prices),
                      dir \in PolicyDirs :
                      batch' = fiacRunEstimate(FiacInvocation("ok", changes, env, dir),
                                               sem, usage, prices, est)
    /\ UNCHANGED outsideBatch

\* the policies terracost runEstimate adds to the engine from its flags
CliPolicies(inv) ==
    (IF inv.cost_limit > 0
     THEN << [id |-> "cli-cost-limit", type |-> "cost_limit", severity |-> "error",
              threshold |-> inv.cost_limit, enabled |-> TRUE] >>
     ELSE <<>>)
    \o (IF inv.carbon_budget > 0
        THEN << [id |-> "cli-carbon-budget", type |-> "carbon_budget",
                 severity |-> "error", threshold |-> inv.carbon_budget,
                 enabled |-> TRUE] >>
        ELSE <<>>)

\* terracost outputJSON, outputMarkdown, outputTable: the process exit code
terracostOutput(format, verdict) ==
    IF format = "table" /\ verdict = "deny" THEN 2 ELSE 0

TerracostFinished(inv, dec, est, verdict) ==
    [status |-> 2, cli |-> "terracost", input |-> inv,
     parse_error |-> FALSE, estimate_error |-> FALSE,
     environment |-> inv.environment,
     profile |-> "default",
     region |-> "us-east-1",
     components |-> Len(dec.components),
     prices |-> <<>>,
     is_incomplete |-> est.is_incomplete,
     drivers |-> est.cost_drivers,
     total_cost_p50 |-> est.monthly_cost_p50,
     verdict |-> verdict,
     exit_code |-> terracostOutput(inv.format, verdict)]

\* main of terracost on an error returned by runEstimate
TerracostError(inv, parse) ==
    [status |-> 2, cli |-> "terracost", input |-> inv,
     parse_error |-> parse, estimate_error |-> ~parse,
     environment |-> inv.environment, profile |-> "", region |-> "",
     components |-> 0, prices |-> <<>>, is_incomplete |-> FALSE, drivers |-> <<>>,
     total_cost_p50 |-> 0, verdict |-> "none", exit_code |-> 1]

terracostEvaluate(inv, dec, est) ==
    TerracostFinished(inv, dec, est,
        IF inv.skip_policy THEN "none"
        ELSE Evaluate(defaultPolicies \o CliPolicies(inv), inv.opa_endpoint, <<>>, est,
                      inv.environment, inv.opa_fails).result.decision)

terracostEstimate(inv, dec) ==
    terracostEvaluate(inv, dec, Estimate(dec.components, inv, inv.answers, <<>>))

\* terracost runEstimate
terracostRunEstimate(inv) ==
    CASE inv.plan = "malformed" -> TerracostError(inv, TRUE)
      [] inv.plan = "no_store" -> TerracostError(inv, FALSE)
      [] OTHER -> terracostEstimate(inv, Decompose(inv.nodes))

TerracostInvocation(plan, nodes, env, format, limit, skip, opa, answers) ==
    [plan |-> plan, nodes |-> nodes, environment |-> env, format |-> format,
     cost_limit |-> limit, carbon_budget |-> 0, include_carbon |-> FALSE,
     skip_policy |-> skip, opa_endpoint |-> opa.endpoint, opa_fails |-> opa.fails,
     answers |-> answers]

OpaFlags ==
    {[endpoint |-> "", fails |-> FALSE],
     [endpoint |-> "http://opa:8181", fails |-> FALSE],
     [endpoint |-> "http://opa:8181", fails |-> TRUE]}

\* terracost estimate --plan ... --env ... --format ... --cost-limit ...
TerracostEstimate ==
    /\ batch = NoRequest
    /\ \/ \E plan \in {"malformed", "no_store"}, env \in Environments :
             batch' = terracostRunEstimate(
                          TerracostInvocation(plan, <<>>, env, "table", 0, FALSE,
                                              [endpoint |-> "", fails |-> FALSE], <<>>))
       \/ \E nodes \in Plans, env \in Environments,
             format \in {"json", "markdown", "table"}, limit \in {0, 25},
             skip \in BOOLEAN, opa \in OpaFlags :
             \E answers \in AnswerSeqs(pricing_snapshots, pricing_rates,
                                       Decompose(nodes).components, 1, MaxQueryErrors) :
                batch' = terracostRunEstimate(
                             TerracostInvocation("ok", nodes, env, format, limit, skip,
                                                 opa, answers))
    /\ UNCHANGED outsideBatch

\* the process has exited
BatchExit ==
    /\ batch # NoRequest
    /\ batch' = NoRequest
    /\ UNCHANGED outsideBatch

BatchNext == FiacEstimate \/ TerracostEstimate \/ BatchExit

BatchSpec == Init /\ [][BatchNext]_vars

-----------------------------------------------------------------------------
(* Claims about the command-line tools (specification BatchSpec)           *)

Exited == batch.status = 2

\* C12: a batch invocation exits with 10 on a parse error, 11 on an estimation
\* error, 20 when the estimate is incomplete, and otherwise with 1 for the verdict
\* deny, 2 for warn and 0 for pass.
C12_ExitCodeByVerdict ==
    Exited =>
        batch.exit_code = CASE batch.parse_error -> 10
                            [] batch.estimate_error -> 11
                            [] batch.is_incomplete -> 20
                            [] batch.verdict = "deny" -> 1
                            [] batch.verdict = "warn" -> 2
                            [] OTHER -> 0

\* C13: an estimation requested with an environment name that is not a registered
\* usage profile fails with the fatal estimation error, and no other profile is used
\* in place of the unknown one.
C13_UnknownEnvironmentIsFatal ==
    (Exited /\ batch.cli = "fiac" /\ ~batch.parse_error
        /\ batch.environment \notin DOMAIN UsageProfiles)
    => /\ batch.estimate_error
       /\ batch.exit_code = ExitEstimateError
       /\ batch.profile \notin {UsageProfiles[e].name : e \in DOMAIN UsageProfiles}

\* C14: every result holds exactly one driver for each processed component, also
\* when the result is incomplete.
C14_OneDriverPerComponent ==
    (Exited /\ ~batch.parse_error /\ ~batch.estimate_error)
    => Len(batch.drivers) = batch.components

\* C15: no caller of the price lookup opts in to a default-region fallback, so a
\* price resolved for an invocation is a price of the invocation's own region and a
\* us-east-1 price is never returned for another region.
C15_NoDefaultRegionFallback ==
    Exited =>
        \A i \in 1..Len(batch.prices) : batch.prices[i].region = batch.region

-----------------------------------------------------------------------------
(* The estimation-core service and the two services it calls over HTTP.    *)
(*                                                                         *)
(* Estimator.Estimate asks the usage engine (handleForecast) and the       *)
(* pricing engine (handleGetPrice) once per component, each time through   *)
(* HTTPClient.PostJSON.  Time is a day number; a price is an integer       *)
(* number of 1/10000 $ per unit and a cost of 1/10000 $ (rounded down); a  *)
(* carbon intensity is in tenths of a gram per unit; confidence is in      *)
(* millionths (rounded down).                                              *)

MaxCoreComponents == 2   \* billing components in one /estimate request
MaxTime == 4             \* day numbers 1..MaxTime
MaxPriceRows == 2        \* rows ever handed to Ingest

\* NewEstimator: platform.NewHTTPClient(3, 2*time.Second)
Retries == 3

ConfidenceOne == 1000000

\* a transport error has no status code
TransportError == [err |-> TRUE, code |-> 0, forecast |-> <<>>, price |-> <<>>]

HTTPError(code) == [err |-> FALSE, code |-> code, forecast |-> <<>>, price |-> <<>>]

NoAttributes == [instance_type |-> "", volume_type |-> "", size_gb |-> <<>>]

CoreShapes == {"t3", "m5", "gp2", "gp2_nosize", "unmapped"}

\* api.BillingComponent as the semantic engine hands it to /estimate
CoreComponent(shape, i) ==
    [resource_address |-> <<shape, i>>,
     provider |-> "aws",
     usage_type |-> IF shape \in {"t3", "m5", "unmapped"} THEN "compute"
                    ELSE IF shape = "gp2" THEN "storage" ELSE "on_demand",
     lookup_attributes |->
         IF shape = "t3" THEN [NoAttributes EXCEPT !.instance_type = "t3.medium"]
         ELSE IF shape = "m5" THEN [NoAttributes EXCEPT !.instance_type = "m5.large"]
         ELSE IF shape = "gp2"
              THEN [NoAttributes EXCEPT !.volume_type = "gp2", !.size_gb = <<100>>]
         ELSE IF shape = "gp2_nosize" THEN [NoAttributes EXCEPT !.volume_type = "gp2"]
         ELSE NoAttributes,
     mapping_error |-> IF shape = "unmapped" THEN "unsupported resource" ELSE ""]

CoreRequests ==
    UNION { { [i \in 1..n |-> CoreComponent(f[i], i)] : f \in [1..n -> CoreShapes] }
            : n \in 0..MaxCoreComponents }

\* usage engine: service.Predict
ForecastPredict(comp) ==
    IF comp.provider = "aws" /\ comp.usage_type = "compute"
    THEN [p50 |-> 730, p90 |-> 730, metric |-> "hours", confidence |-> 95]
    ELSE IF comp.provider = "aws" /\ comp.usage_type = "storage"
    THEN [p50 |-> 1, p90 |-> 1, metric |-> "months", confidence |-> 90]
    ELSE [p50 |-> 730, p90 |-> 730, metric |-> "hours", confidence |-> 80]

\* usage engine: handleForecast on a well-formed request; reading the body
\* or encoding the answer may fail with a 500
handleForecast(comp) ==
    { [err |-> FALSE, code |-> 200, forecast |-> <<ForecastPredict(comp)>>, price |-> <<>>],
      HTTPError(500) }

\* pricing engine: ClickHouseStore.GetPrice.  The query text it builds is
\* never run: the answer is decided by the attributes alone.
GetPrice(provider, attributes, effectiveTime) ==
    IF attributes.instance_type = "t3.medium"
    THEN <<[sku_id |-> "sku-t3-medium-us-east-1", provider |-> provider,
            price_per_unit |-> 416, unit |-> "Hrs",
            effective_date |-> effectiveTime - 1, carbon_intensity |-> 185]>>
    ELSE IF attributes.volume_type = "gp2"
    THEN <<[sku_id |-> "sku-ebs-gp2-us-east-1", provider |-> provider,
            price_per_unit |-> 1000, unit |-> "GB-Mo",
            effective_date |-> effectiveTime - 2, carbon_intensity |-> 2]>>
    ELSE <<>>

\* pricing engine: handleGetPrice; timestamp 0 is the zero time
handleGetPrice(provider, attributes, timestamp, now) ==
    LET price == GetPrice(provider, attributes, IF timestamp = 0 THEN now ELSE timestamp)
    IN  IF price = <<>> THEN HTTPError(404)
        ELSE [err |-> FALSE, code |-> 200, forecast |-> <<>>, price |-> price]

\* what one http.Client.Do of the call in progress can come back with
Responses(c) ==
    LET comp == c.components[c.i]
    IN  {TransportError} \cup
        (IF c.stage = "usage" THEN handleForecast(comp)
         ELSE {handleGetPrice(comp.provider, comp.lookup_attributes, c.now, c.now)})

CriticalError(comp, message) ==
    [component |-> comp.resource_address, severity |-> "critical", message |-> message]

\* Estimator.Estimate, stage 2 and the closing checks
CalculateResolved(c, k) ==
    IF k > Len(c.resolved) THEN c
    ELSE LET rc == c.resolved[k]
             gbmo == rc.price.unit = "GB-Mo"
             size == rc.component.lookup_attributes.size_gb
         IN  IF gbmo /\ size = <<>>
             THEN [c EXCEPT
                     !.detailed_errors = Append(@, CriticalError(rc.component,
                                             "GB-Mo price requires size_gb attribute")),
                     !.is_incomplete = TRUE]
             ELSE LET p50 == IF gbmo
                             THEN (rc.price.price_per_unit * size[1] * rc.forecast.p50) \div 730
                             ELSE rc.price.price_per_unit * rc.forecast.p50
                      p90 == (p50 * rc.forecast.p90) \div rc.forecast.p50
                  IN  [c EXCEPT
                         !.drivers = Append(@, [component |-> rc.component.resource_address,
                                                reason |-> rc.price.sku_id,
                                                p50_cost |-> p50, p90_cost |-> p90]),
                         !.total_p50 = @ + p50,
                         !.total_p90 = @ + p90,
                         !.carbon = @ + rc.price.carbon_intensity * rc.forecast.p50]

RECURSIVE CalculateAll(_, _)
CalculateAll(c, k) ==
    IF k > Len(c.resolved) THEN c ELSE CalculateAll(CalculateResolved(c, k), k + 1)

EstimateFinish(c) ==
    LET d == CalculateAll(c, 1)
        critical == \E k \in 1..Len(d.detailed_errors) :
                       d.detailed_errors[k].severity = "critical"
    IN  [d EXCEPT !.status = 2,
                  !.confidence_score = IF critical THEN 0 ELSE d.global_confidence,
                  !.total_p50 = IF d.is_incomplete THEN 0 ELSE @,
                  !.total_p90 = IF d.is_incomplete THEN 0 ELSE @,
                  !.carbon = IF d.is_incomplete THEN 0 ELSE @]

\* Estimator.Estimate, stage 1 from component c.i up to the next HTTP call
RECURSIVE EstimateResume(_)
EstimateResume(c) ==
    IF c.i > Len(c.components) THEN EstimateFinish(c)
    ELSE IF c.components[c.i].mapping_error # ""
    THEN EstimateResume([c EXCEPT
             !.detailed_errors = Append(@, CriticalError(c.components[c.i], "Mapping Failed")),
             !.is_incomplete = TRUE,
             !.global_confidence = 0,
             !.i = @ + 1])
    ELSE [c EXCEPT !.stage = "usage", !.attempt = 0, !.forecast = <<>>]

\* the error value of getUsageForecast / getPrice for what PostJSON returned
CallFailed(resp) == resp.err \/ resp.code # 200

\* Estimator.Estimate after getUsageForecast returned
AfterUsage(c, resp) ==
    IF CallFailed(resp)
    THEN EstimateResume([c EXCEPT
             !.detailed_errors = Append(@, CriticalError(c.components[c.i],
                                                         "Usage Forecast Failed")),
             !.is_incomplete = TRUE,
             !.global_confidence = (@ * 50) \div 100,
             !.i = @ + 1])
    ELSE [c EXCEPT !.forecast = resp.forecast,
                   !.global_confidence = (@ * resp.forecast[1].confidence) \div 100,
                   !.stage = "price", !.attempt = 0]

\* Estimator.Estimate after getPrice returned
AfterPrice(c, resp) ==
    IF CallFailed(resp)
    THEN EstimateResume([c EXCEPT
             !.detailed_errors = Append(@, CriticalError(c.components[c.i],
                                                         "Pricing Lookup Failed")),
             !.drivers = Append(@, [component |-> c.components[c.i].resource_address,
                                    reason |-> "Price Missing",
                                    p50_cost |-> 0, p90_cost |-> 0]),
             !.is_incomplete = TRUE,
             !.global_confidence = (@ * 50) \div 100,
             !.i = @ + 1])
    ELSE EstimateResume([c EXCEPT
             !.resolved = Append(@, [component |-> c.components[c.i],
                                     forecast |-> c.forecast[1],
                                     price |-> resp.price[1]]),
             !.i = @ + 1])

\* PostJSON returned resp to getUsageForecast or getPrice
Returned(c, resp) ==
    LET logged == [c EXCEPT !.calls = Append(@, [i |-> c.i, stage |-> c.stage,
                                                  attempts |-> c.attempt + 1,
                                                  err |-> resp.err, code |-> resp.code]),
                            !.outcomes = <<>>]
    IN  IF c.stage = "usage" THEN AfterUsage(logged, resp) ELSE AfterPrice(logged, resp)

\* PostJSON going round again after any answer that is not a success
RetryClientErrors(resp, i) == (resp.err \/ resp.code >= 400) /\ i < Retries

\* HTTPClient.PostJSON: whether the loop goes round again after this answer
Retry(resp, i) == (resp.err \/ resp.code >= 500) /\ i < Retries

\* one iteration of PostJSON's loop, and whatever follows it up to the next one
PostJSONAttempt(c, resp) ==
    IF Retry(resp, c.attempt)
    THEN [c EXCEPT !.attempt = @ + 1,
                   !.outcomes = Append(@, [err |-> resp.err, code |-> resp.code])]
    ELSE Returned(c, resp)

\* POST /estimate on the estimation core, served on day MaxTime, up to its
\* first HTTP call
CoreEstimate ==
    /\ core = NoRequest
    /\ \E components \in CoreRequests, now \in {MaxTime} :
          core' = EstimateResume(
                     [status |-> 1, components |-> components, now |-> now,
                      i |-> 1, stage |-> "usage", attempt |-> 0, outcomes |-> <<>>,
                      calls |-> <<>>, forecast |-> <<>>, resolved |-> <<>>,
                      detailed_errors |-> <<>>, drivers |-> <<>>,
                      is_incomplete |-> FALSE, global_confidence |-> ConfidenceOne,
                      confidence_score |-> 0, total_p50 |-> 0, total_p90 |-> 0,
                      carbon |-> 0])
    /\ UNCHANGED <<priceLog, priceReply, outsideCore>>

\* the HTTP call in progress gets an answer
CoreAttempt ==
    /\ core.status = 1
    /\ \E resp \in Responses(core) : core' = PostJSONAttempt(core, resp)
    /\ UNCHANGED <<priceLog, priceReply, outsideCore>>

\* the /estimate response is written; the service takes the next request
CoreNext ==
    /\ core.status = 2
    /\ core' = NoRequest
    /\ UNCHANGED <<priceLog, priceReply, outsideCore>>

EstimatorNext == CoreEstimate \/ CoreAttempt \/ CoreNext

EstimatorSpec == Init /\ [][EstimatorNext]_vars

-----------------------------------------------------------------------------
(* The pricing engine on its own: its store's Ingest and its /price        *)
(* endpoint, called with any timestamp.                                    *)

\* focus.PricingItem rows a price feed can hand to Ingest
PriceRows ==
    [provider : {"aws"},
     attributes : {[NoAttributes EXCEPT !.instance_type = "t3.medium"],
                   [NoAttributes EXCEPT !.instance_type = "m5.large"]},
     price_per_unit : {400, 416},
     effective_date : 1..MaxTime]

\* ClickHouseStore.Ingest: prints the INSERT it would run and stores nothing;
\* priceLog keeps what was handed over
Ingest ==
    /\ \E item \in PriceRows :
          /\ item \notin priceLog
          /\ Cardinality(priceLog) < MaxPriceRows
          /\ priceLog' = priceLog \cup {item}
    /\ UNCHANGED <<core, priceReply, outsideCore>>

PriceQueries ==
    {[NoAttributes EXCEPT !.instance_type = "t3.medium"],
     [NoAttributes EXCEPT !.instance_type = "m5.large"],
     [NoAttributes EXCEPT !.volume_type = "gp2"]}

\* POST /price
PriceLookup ==
    /\ \E attributes \in PriceQueries, timestamp \in 0..MaxTime, now \in 3..MaxTime :
          LET resp == handleGetPrice("aws", attributes, timestamp, now)
          IN  priceReply' = [status |-> 2, provider |-> "aws", attributes |-> attributes,
                             timestamp |-> timestamp, now |-> now,
                             code |-> resp.code, price |-> resp.price]
    /\ UNCHANGED <<core, priceLog, outsideCore>>

PricingEngineNext == Ingest \/ PriceLookup

PricingEngineSpec == Init /\ [][PricingEngineNext]_vars

-----------------------------------------------------------------------------
(* Claims about price lookups with an effective time (specification        *)
(* PricingEngineSpec)                                                      *)

\* the attribute filter of GetPrice's query: every attribute asked for is the row's
AttributesMatch(row, attributes) ==
    /\ attributes.instance_type # "" => row.attributes.instance_type = attributes.instance_type
    /\ attributes.volume_type # "" => row.attributes.volume_type = attributes.volume_type

\* the handed-over rows a lookup at time t may use
EffectiveRows(rows, provider, attributes, t) ==
    { r \in rows : /\ r.provider = provider
                   /\ AttributesMatch(r, attributes)
                   /\ r.effective_date <= t }

LookupUsesLatest(reply, rows) ==
    LET t == IF reply.timestamp = 0 THEN reply.now ELSE reply.timestamp
        valid == EffectiveRows(rows, reply.provider, reply.attributes, t)
    IN  IF valid = {} THEN reply.code = 404
        ELSE /\ reply.code = 200
             /\ \E r \in valid :
                   /\ \A o \in valid : o.effective_date <= r.effective_date
                   /\ reply.price[1].price_per_unit = r.price_per_unit
                   /\ reply.price[1].effective_date = r.effective_date

\* C16: a price lookup with effective time t answers with the latest price
\* record whose effective date is at or before t (and reports not-found when
\* there is none); without a time it answers for the current time.
C16_LookupUsesLatestEffective ==
    [][(priceReply' # priceReply) => LookupUsesLatest(priceReply', priceLog)]_vars

-----------------------------------------------------------------------------
(* Claims about inter-service calls (specification EstimatorSpec)          *)

ServerFailure(answer) == answer.err \/ answer.code >= 500

HasCriticalError(c, i) ==
    \E k \in 1..Len(c.detailed_errors) :
       /\ c.detailed_errors[k].component = c.components[i].resource_address
       /\ c.detailed_errors[k].severity = "critical"

-----------------------------------------------------------------------------
(* The estimation endpoint when the request's context is cancelled while   *)
(* the request is served (the client goes away): the ResolveRate call in   *)
(* progress and every later call on that context return its error.         *)

\* the answers to the ResolveRate calls of a request cancelled at call k
RECURSIVE CancelledAnswers(_, _, _, _, _)
CancelledAnswers(snaps, rates, comps, i, k) ==
    IF i > Len(comps) THEN {<<>>}
    ELSE { <<a>> \o rest :
              a \in (IF i >= k THEN {QueryError}
                     ELSE Answers(snaps, rates, comps[i], "default") \ {QueryError}),
              rest \in CancelledAnswers(snaps, rates, comps, i + 1, k) }

\* Server.handleEstimate on a well-formed request whose context is cancelled
\* during its k-th price lookup; evaluateOPA runs on the same context
HandleCancelledEstimate ==
    /\ request = NoRequest
    /\ \E nodes \in Plans, env \in Environments, lim \in Limits :
          \E k \in 1..Len(Decompose(nodes).components) :
             \E answers \in CancelledAnswers(pricing_snapshots, pricing_rates,
                                             Decompose(nodes).components, 1, k) :
                /\ Served(EstimateRequest(nodes, env, lim, answers, opaEndpoint # ""),
                          handleEstimate(EstimateRequest(nodes, env, lim, answers,
                                                         opaEndpoint # ""),
                                         policies, opaEndpoint))
                /\ cancelledAt' = k
    /\ UNCHANGED <<catalogVars, batchVars, coreVars, replayVars, governanceVars, tierVars,
                   mapperVars, engineVars,
                   policies, opaEndpoint>>

CancelNext == HandleCancelledEstimate \/ ServeNext \/ AddPolicy \/ WithOPA

CancelSpec == Init /\ [][CancelNext]_vars

-----------------------------------------------------------------------------
(* Claims about cancellation (specification CancelSpec)                    *)

\* C17: an estimation whose context was cancelled before it completed ends
\* with the verdict deny and the reason cancelled, never with pass or warn.
C17_CancelledEndsInDeny ==
    (request # NoRequest /\ cancelledAt > 0) =>
       /\ response.policy_result = "deny"
       /\ \E i \in 1..Len(response.violations) : response.violations[i] = "cancelled"

-----------------------------------------------------------------------------
(* Two runs of the estimation on the same plan and the same catalog.       *)
(* Graph.Nodes is a Go map: TopologicalSort starts its visits in the       *)
(* iteration order of that map, which differs from run to run.             *)

\* the orders a map of n entries can be iterated in
Iterations(n) == { f \in [1..n -> 1..n] : \A i, j \in 1..n : f[i] = f[j] => i = j }

IndexOf(nodes, address) == CHOOSE i \in 1..Len(nodes) : nodes[i].address = address

Visited(result, k) == \E j \in 1..Len(result) : result[j] = k

\* TopologicalSort, the closure visit: result holds the positions (in nodes)
\* visited so far; the plans have no cycles
RECURSIVE visit(_, _, _)
RECURSIVE visitDependencies(_, _, _, _)
visit(result, nodes, k) ==
    IF Visited(result, k) THEN result
    ELSE Append(visitDependencies(result, nodes, nodes[k].dependencies, 1), k)

visitDependencies(result, nodes, dependencies, j) ==
    IF j > Len(dependencies) THEN result
    ELSE visitDependencies(visit(result, nodes, IndexOf(nodes, dependencies[j])),
                           nodes, dependencies, j + 1)

RECURSIVE visitAll(_, _, _, _)
visitAll(result, nodes, iteration, j) ==
    IF j > Len(nodes) THEN result
    ELSE visitAll(visit(result, nodes, iteration[j]), nodes, iteration, j + 1)

\* Graph.TopologicalSort when the map is iterated in the given order
TopologicalSort(nodes, iteration) ==
    LET order == visitAll(<<>>, nodes, iteration, 1)
    IN  [j \in 1..Len(nodes) |-> nodes[order[j]]]

\* the answers of the second run: every component gets the rate it got in the first
SameAnswers(comps, firstComps, firstAnswers) ==
    [i \in 1..Len(comps) |->
        firstAnswers[CHOOSE j \in 1..Len(firstComps) : firstComps[j].id = comps[i].id]]

RunResult(out) ==
    [components |-> out.decomposition.components,
     estimation |-> out.estimation,
     response |-> out.response]

\* POST /api/v1/estimate twice with the same body, no lookup failing
EstimateTwice ==
    /\ replay = NoRequest
    /\ \E nodes \in Plans, env \in Environments, lim \in Limits :
          \E it1 \in Iterations(Len(nodes)), it2 \in Iterations(Len(nodes)) :
             LET first == TopologicalSort(nodes, it1)
                 second == TopologicalSort(nodes, it2)
                 comps1 == Decompose(first).components
                 comps2 == Decompose(second).components
             IN  \E answers \in AnswerSeqs(pricing_snapshots, pricing_rates, comps1, 1, 0) :
                    replay' =
                       [status |-> 2, nodes |-> nodes, environment |-> env,
                        first |-> RunResult(handleEstimate(
                                     EstimateRequest(first, env, lim, answers, FALSE),
                                     policies, opaEndpoint)),
                        second |-> RunResult(handleEstimate(
                                     EstimateRequest(second, env, lim,
                                                     SameAnswers(comps2, comps1, answers),
                                                     FALSE),
                                     policies, opaEndpoint))]
    /\ UNCHANGED outsideReplay

ReplayNext ==
    /\ replay # NoRequest
    /\ replay' = NoRequest
    /\ UNCHANGED outsideReplay

ReplayStep == EstimateTwice \/ ReplayNext

ReplaySpec == Init /\ [][ReplayStep]_vars

-----------------------------------------------------------------------------
(* Claims about determinism (specification ReplaySpec)                     *)

\* C19: two runs on the same plan against the same active snapshot give the
\* same result: the same components in the same order, the same drivers in
\* the same order, the same totals and errors.
C19_RunsAreIdentical ==
    replay # NoRequest => replay.first = replay.second

-----------------------------------------------------------------------------
(* Claims about the order of the cost drivers (specification ReplaySpec)   *)

\* the shape and number a resource address of the plans is made of
AddressKey(address) ==
    CHOOSE k \in NodeShapes \X (1..9) : k[1] \o ToString(k[2]) = address

\* the place of a shape's name in lexicographic order
ShapeRank(shape) ==
    CASE shape = "ami" -> 1
      [] shape = "bare" -> 2
      [] shape = "big" -> 3
      [] shape = "key" -> 4
      [] shape = "web" -> 5

\* a <= b for two resource addresses, as strings
AddressLeq(a, b) ==
    LET ka == AddressKey(a)
        kb == AddressKey(b)
    IN  \/ ShapeRank(ka[1]) < ShapeRank(kb[1])
        \/ ka[1] = kb[1] /\ ka[2] <= kb[2]

DriversOrdered(drivers) ==
    \A i, j \in 1..Len(drivers) :
       i < j =>
          \/ drivers[i].monthly_cost_p50 > drivers[j].monthly_cost_p50
          \/ /\ drivers[i].monthly_cost_p50 = drivers[j].monthly_cost_p50
             /\ AddressLeq(drivers[i].resource_addr, drivers[j].resource_addr)

\* C20: in every result the drivers are in descending order of P50 cost, and
\* drivers of equal P50 cost in ascending order of resource address, whatever
\* order the components were resolved in.
C20_DriversOrdered ==
    replay # NoRequest =>
       /\ DriversOrdered(replay.first.response.cost_drivers)
       /\ DriversOrdered(replay.second.response.cost_drivers)

-----------------------------------------------------------------------------
(* The policy engine service: POST /evaluate hands the estimate, with the  *)
(* budget, to OPA and returns OPA's decision.  Costs are whole dollars,    *)
(* confidence a percentage.                                                *)

\* Evaluator.Evaluate: "total_budget": 1200.0
TotalBudget == 1200

\* the two copies of policies/main.rego an OPA server can be started with
RegoModules == {"contains", "legacy"}

\* main.rego: the rules that add to the set named violations.  In the legacy
\* copy the budget rule adds to a set named violation instead.
RegoViolations(module, estimate, budget) ==
    (IF module = "contains" /\ estimate.p90 > budget THEN {"budget"} ELSE {})
    \cup (IF estimate.is_incomplete THEN {"incomplete"} ELSE {})
    \cup (IF estimate.confidence_score < 80 THEN {"confidence"} ELSE {})

\* main.rego: warnings
RegoWarnings(estimate) == IF estimate.p90 > 800 THEN {"approaching"} ELSE {}

\* main.rego: default allow = false; allow if count(violations) == 0
RegoAllow(module, estimate, budget) == RegoViolations(module, estimate, budget) = {}

\* Evaluator.Evaluate; opa is what the POST to OPA came back with
GovernanceEvaluate(estimate, module, opa) ==
    IF opa # "ok"
    THEN [err |-> TRUE, allowed |-> FALSE, violations |-> {}, warnings |-> {}]
    ELSE [err |-> FALSE,
          allowed |-> RegoAllow(module, estimate, TotalBudget),
          violations |-> RegoViolations(module, estimate, TotalBudget),
          warnings |-> RegoWarnings(estimate)]

\* the estimates the regression suite and the estimation core send
GovernanceEstimates ==
    [p90 : {500, 900, 1200, 1500},
     confidence_score : {0, 50, 79, 80, 95, 100},
     is_incomplete : BOOLEAN]

\* POST /evaluate on the policy engine
PolicyEvaluate ==
    /\ governance = NoRequest
    /\ \E estimate \in GovernanceEstimates, module \in RegoModules,
          opa \in {"ok", "unreachable", "status_500"} :
          LET result == GovernanceEvaluate(estimate, module, opa)
          IN  governance' = [status |-> IF result.err THEN 500 ELSE 200,
                             estimate |-> estimate, module |-> module,
                             allowed |-> result.allowed,
                             violations |-> result.violations,
                             warnings |-> result.warnings]
    /\ UNCHANGED outsideGovernance

PolicyNext ==
    /\ governance # NoRequest
    /\ governance' = NoRequest
    /\ UNCHANGED outsideGovernance

GovernanceNext == PolicyEvaluate \/ PolicyNext

GovernanceSpec == Init /\ [][GovernanceNext]_vars

-----------------------------------------------------------------------------
(* Claims about the policy engine service (specification GovernanceSpec)   *)

\* C21: the policy engine answers Allowed = false for every estimate whose
\* confidence score is below 0.8, or that is incomplete, or whose P90 monthly
\* cost exceeds the budget, and Allowed = true for every other estimate.
C21_AllowedIffNoViolation ==
    governance.status = 200 =>
       (governance.allowed <=>
           ~ \/ governance.estimate.confidence_score < 80
             \/ governance.estimate.is_incomplete
             \/ governance.estimate.p90 > TotalBudget)

-----------------------------------------------------------------------------
(* Tiered rates: Store.CalculateTieredCost, and the cost the estimation     *)
(* engine gives a component whose rate key has tiered rows.  Usage is in    *)
(* whole units, a price in cents per unit, confidence a percentage.         *)

\* the longest tier list drawn
MaxTiers == 3

\* TieredRate; Max is <<>> for an unbounded tier
TieredRate(min, max, price, confidence) ==
    [Min |-> min, Max |-> max, Price |-> price, Confidence |-> confidence]

\* the rows of one rate key as ResolveTieredRates returns them, ORDER BY tier_min:
\* adjacent tiers of 100 units, the last either bounded or unbounded
TierLists ==
    UNION {
      {[i \in 1 .. n |->
           TieredRate((i - 1) * 100,
                      IF i = n /\ open THEN <<>> ELSE <<i * 100>>,
                      price[i], confidence[i])] :
          price \in [1 .. n -> {5, 9}], confidence \in [1 .. n -> {90, 100}],
          open \in BOOLEAN} :
      n \in 1 .. MaxTiers}

\* the loop of CalculateTieredCost from tier i on; charged records tierUsage of
\* each tier visited
RECURSIVE TierLoop(_, _, _, _, _, _)
TierLoop(tiers, i, remaining, totalCost, minConfidence, charged) ==
    IF i > Len(tiers) \/ remaining <= 0
    THEN [cost |-> totalCost, confidence |-> minConfidence,
          remaining |-> remaining, charged |-> charged]
    ELSE LET tier == tiers[i]
             tierUsage == IF tier.Max = <<>>
                          THEN remaining
                          ELSE IF remaining > tier.Max[1] - tier.Min
                               THEN tier.Max[1] - tier.Min
                               ELSE remaining
         IN  TierLoop(tiers, i + 1, remaining - tierUsage,
                      totalCost + tierUsage * tier.Price,
                      IF tier.Confidence < minConfidence
                      THEN tier.Confidence ELSE minConfidence,
                      Append(charged, tierUsage))

\* Store.CalculateTieredCost: it returns the cost and the confidence, and has no
\* error result
CalculateTieredCost(usage, tiers) ==
    IF Len(tiers) = 0
    THEN [cost |-> 0, confidence |-> 0, remaining |-> usage, charged |-> <<>>]
    ELSE TierLoop(tiers, 1, usage, 0, 100, <<>>)

\* Store.ResolveRate on a rate key with these rows: ORDER BY tier_min NULLS FIRST
\* LIMIT 1
ResolveFirstRate(tiers) == tiers[1]

\* Engine.estimateComponent: driver.MonthlyCostP50 = rate.Price.Mul(usageP50)
DriverMonthlyCost(rate, usage) == rate.Price * usage

\* one component with tiered rows is priced: by CalculateTieredCost, and by the
\* estimation engine
EstimateTiered ==
    /\ tiered = NoRequest
    /\ \E tiers \in TierLists, usage \in {0, 50, 100, 150, 250, 350} :
          LET result == CalculateTieredCost(usage, tiers)
          IN  tiered' = [usage |-> usage, tiers |-> tiers,
                         cost |-> result.cost,
                         confidence |-> result.confidence,
                         charged |-> result.charged,
                         remaining |-> result.remaining,
                         critical_error |-> FALSE,
                         driver_cost |-> DriverMonthlyCost(ResolveFirstRate(tiers), usage)]
    /\ UNCHANGED outsideTier

TierNext ==
    /\ tiered # NoRequest
    /\ tiered' = NoRequest
    /\ UNCHANGED outsideTier

TierSpecNext == EstimateTiered \/ TierNext

TierSpec == Init /\ [][TierSpecNext]_vars

\* the quantity of the usage that falls into tier i
TierQuantity(tiers, i, usage) ==
    LET above == IF usage > tiers[i].Min THEN usage - tiers[i].Min ELSE 0
    IN  IF tiers[i].Max # <<>> /\ above > tiers[i].Max[1] - tiers[i].Min
        THEN tiers[i].Max[1] - tiers[i].Min
        ELSE above

RECURSIVE TierCostUpTo(_, _, _)
TierCostUpTo(tiers, n, usage) ==
    IF n = 0 THEN 0
    ELSE TierCostUpTo(tiers, n - 1, usage) + TierQuantity(tiers, n, usage) * tiers[n].Price

EndsUnbounded(tiers) == tiers[Len(tiers)].Max = <<>>

\* C22: the cost of a component with tiered pricing is the cost of its usage
\* consumed against the tiers in ascending order, each bounded tier taking at most
\* tier_max - tier_min and the final unbounded tier the remainder
C22_TieredComponentCost ==
    (tiered # NoRequest /\ EndsUnbounded(tiered.tiers)) =>
        tiered.driver_cost = TierCostUpTo(tiered.tiers, Len(tiered.tiers), tiered.usage)

\* C23: usage beyond the final tier's tier_max, with no unbounded tier, is
\* reported as a critical error and no usage stays uncharged without one
C23_ExcessIsCriticalError ==
    (tiered # NoRequest /\ tiered.remaining > 0) => tiered.critical_error

-----------------------------------------------------------------------------
(* Claims about the aggregate confidence (specification Spec)               *)

\* the confidences of the drivers of a result, in driver order
DriverConfidences(drivers) == [i \in DOMAIN drivers |-> drivers[i].confidence]

\* C24: the aggregate confidence of a result with no symbolic component and no
\* critical error is the geometric mean of the confidences of its components
C24_ConfidenceIsGeometricMean ==
    (/\ Served200
     /\ Len(estimation.cost_drivers) > 0
     /\ \A i \in DOMAIN estimation.cost_drivers : ~estimation.cost_drivers[i].is_symbolic
     /\ \A i \in DOMAIN estimation.errors : ~estimation.errors[i].is_critical
     /\ \A i \in DOMAIN decomposition.mapping_errors :
           ~decomposition.mapping_errors[i].is_critical)
        => estimation.confidence = Aggregate(DriverConfidences(estimation.cost_drivers))

-----------------------------------------------------------------------------
(* Claims about the empty plan (specification BatchSpec)                    *)

\* C25: the estimate of a plan with zero components is complete, has confidence
\* 1.0 and totals 0, and the policy verdict on it is pass
C25_EmptyPlanPasses ==
    (/\ Exited
     /\ batch.cli = "fiac"
     /\ ~batch.parse_error
     /\ ~batch.estimate_error
     /\ Len(batch.input.nodes) = 0
     /\ batch.input.policies_dir.state = "ok")
        => /\ ~batch.is_incomplete
           /\ batch.confidence_score = 100
           /\ batch.total_cost_p50 = 0
           /\ batch.total_cost_p90 = 0
           /\ batch.total_carbon = 0
           /\ batch.verdict = "pass"

-----------------------------------------------------------------------------
(* MapperSpec: one resource change of a plan taken through the mappers of  *)
(* a pipeline.  The terracost pipeline decomposes the node and estimates   *)
(* its components; the fiac pipeline processes the node.                   *)

\* determineAction / buildResourceNode: the change actions of a resource change
ChangeActions == {"create", "update", "delete", "no-op"}

\* an instance, an instance without instance_type, a volume, a volume without type
\* and size, a resource without mapper
MapperShapes == {"web", "bare", "vol", "rawvol", "key"}

\* Parser.buildResourceNode and GraphBuilder.Build: the node of a resource change;
\* a deleted resource keeps the attributes it had before
MapperNode(shape, change) ==
    IF shape \in {"vol", "rawvol"}
    THEN [GraphNode("web", 1) EXCEPT
             !.address = shape \o "1",
             !.type = "aws_ebs_volume",
             !.change = change,
             !.attributes = IF shape = "vol" THEN [type |-> "gp3", size |-> 20]
                            ELSE EmptyAttrs]
    ELSE [GraphNode(shape, 1) EXCEPT !.change = change]

\* what ResolveRate can answer for a component, on some catalog
MapperAnswers ==
    {NoRate, QueryError,
     Rate([price |-> 41600, confidence |-> 100, snapshot_id |-> 2]),
     Rate([price |-> 80000, confidence |-> 90, snapshot_id |-> 2])}

\* handleEstimate up to the estimation, on a plan of one resource change
DecomposeResource ==
    /\ mapperRun = NoRequest
    /\ \E shape \in MapperShapes, change \in ChangeActions :
          \E dec \in {Decompose(<<MapperNode(shape, change)>>)} :
             \E answers \in [1 .. Len(dec.components) -> MapperAnswers] :
                mapperRun' = [status |-> 2, pipeline |-> "terracost",
                           node |-> MapperNode(shape, change),
                           change |-> change,
                           components |-> dec.components,
                           mapping_errors |-> dec.mapping_errors,
                           drivers |-> Estimate(dec.components,
                                                [include_carbon |-> FALSE],
                                                answers, <<>>).cost_drivers]
    /\ UNCHANGED outsideMapper

\* fiac: semantics.Engine.Process on a plan of one resource change
ProcessResource ==
    /\ mapperRun = NoRequest
    /\ \E shape \in {"web", "tiny", "disk", "key"}, change \in ChangeActions :
          \E node \in {[buildResourceNode(shape, 1) EXCEPT !.change_action = change]} :
             \E sem \in {Process(<<node>>)} :
                mapperRun' = [status |-> 2, pipeline |-> "fiac",
                           node |-> node,
                           change |-> change,
                           components |-> sem.components,
                           mapping_errors |-> sem.mapping_errors,
                           drivers |-> <<>>]
    /\ UNCHANGED outsideMapper

MapperNext ==
    /\ mapperRun # NoRequest
    /\ mapperRun' = NoRequest
    /\ UNCHANGED outsideMapper

MapperSpecNext == DecomposeResource \/ ProcessResource \/ MapperNext

MapperSpec == Init /\ [][MapperSpecNext]_vars

\* C26: in every driver the P50 cost is at most the P90 cost, whatever variance
\* profile the driver was computed from
C26_P50AtMostP90 ==
    mapperRun.status = 2 =>
        \A i \in DOMAIN mapperRun.drivers :
            mapperRun.drivers[i].monthly_cost_p50 <= mapperRun.drivers[i].monthly_cost_p90

\* C27: a resource its mapper matches but that lacks a price-determining attribute
\* (instance type, volume type) gets the mapping error MISSING_ATTRIBUTE, and no
\* component carries a default in place of the missing attribute
C27_MissingAttributeNotGuessed ==
    /\ (/\ mapperRun.status = 2
        /\ mapperRun.pipeline = "fiac"
        /\ mapperRun.change = "create"
        /\ mapperRun.node.type = "aws_instance"
        /\ mapperRun.node.instance_type = "")
           => /\ \E i \in DOMAIN mapperRun.mapping_errors :
                    mapperRun.mapping_errors[i].code = "MISSING_ATTRIBUTE"
              /\ \A i \in DOMAIN mapperRun.components :
                    mapperRun.components[i].instance_type = ""
    /\ (/\ mapperRun.status = 2
        /\ mapperRun.pipeline = "terracost"
        /\ mapperRun.change = "create"
        /\ mapperRun.node.type = "aws_ebs_volume"
        /\ "type" \notin DOMAIN mapperRun.node.attributes)
           => /\ Len(mapperRun.mapping_errors) > 0
              /\ \A i \in DOMAIN mapperRun.components :
                    "volumeType" \notin DOMAIN mapperRun.components[i].attributes

\* C28: a resource change whose action is delete or no-op produces no billing
\* component
C28_DeletedProduceNothing ==
    (mapperRun.status = 2 /\ mapperRun.change \in {"delete", "no-op"})
        => mapperRun.components = <<>>

-----------------------------------------------------------------------------
(* Claims about a failed ingestion (specification CatalogSpec)              *)

\* worker w's IngestPricing call returns an error in this step
IngestFails(w) == ingest[w].pc # "idle" /\ ingest'[w] = Idle("error")

\* C29: when IngestPricing returns an error, the partial snapshot is not active and
\* a key that had an active snapshot when the call began still has one, unless
\* another call is inside ActivateSnapshot for the key
C29_FailedIngestKeepsActive ==
    [][\A w \in Workers :
          IngestFails(w) =>
             /\ ~pricing_snapshots'[ingest[w].id].is_active
             /\ \/ ingest[w].prev = {}
                \/ GetActiveSnapshot(pricing_snapshots', ingest[w].key) # {}
                \/ \E v \in Workers \ {w} :
                      /\ ingest[v].pc \in {"deactivate", "activate"}
                      /\ ingest[v].key = ingest[w].key]_vars

-----------------------------------------------------------------------------
(* EngineSpec: one policy.Engine used by concurrent Evaluate calls.  A Go   *)
(* slice is a length over a backing array of cap elements: append writes    *)
(* into the array when the new length fits its capacity and copies to a new *)
(* array otherwise.  Evaluate's append and its loop are separate steps of a *)
(* call; nothing in Engine orders the steps of two calls.                   *)

\* the goroutines calling Evaluate
NumCallers == 2

Callers == 1 .. NumCallers

IdleCall == [pc |-> "idle"]

\* the estimates the calls are made with (micro-dollars, percent, grams)
EngineEstimates ==
    [monthly_cost_p90 : {10000000, 30000000}, confidence : {95},
     carbon : {0, 2000}, is_incomplete : {FALSE}]

\* policy.NewEngine: policies is the slice literal of defaultPolicies, len = cap
NewEngine ==
    [status |-> 1, policies |-> defaultPolicies, cap |-> Len(defaultPolicies),
     spare |-> <<>>, calls |-> [c \in Callers |-> IdleCall]]

\* the server is constructed
EngineStart ==
    /\ engineRun = NoRequest
    /\ engineRun' = NewEngine
    /\ UNCHANGED outsideEngine

\* Engine.AddPolicy before the engine is handed to its callers:
\* e.policies = append(e.policies, p); a full array is replaced by one of twice the
\* capacity
EngineAddPolicy ==
    /\ engineRun.status = 1
    /\ \A c \in Callers : engineRun.calls[c].pc = "idle"
    /\ Len(engineRun.policies) < Len(defaultPolicies) + MaxAddedPolicies
    /\ \E p \in AddablePolicies :
          engineRun' =
              IF Len(engineRun.policies) < engineRun.cap
              THEN [engineRun EXCEPT !.policies = Append(@, p), !.spare = Tail(@)]
              ELSE [engineRun EXCEPT
                       !.policies = Append(@, p),
                       !.cap = 2 * @,
                       !.spare = [i \in 1 .. (2 * engineRun.cap
                                              - Len(engineRun.policies) - 1) |-> Nil]]
    /\ UNCHANGED outsideEngine

\* the elements of an array of slots after custom was written from the first slot on
WriteSlots(spare, custom) ==
    [i \in DOMAIN spare |-> IF i <= Len(custom) THEN custom[i] ELSE spare[i]]

\* Engine.Evaluate, allPolicies := append(e.policies, req.CustomPolicies...): into the
\* engine's array when the custom policies fit its capacity, else into a copy
EvaluateAppend(c) ==
    /\ engineRun.status = 1
    /\ engineRun.calls[c].pc = "idle"
    /\ \E est \in EngineEstimates, lim \in Limits :
          LET custom == CustomPolicies(lim)
              fits == Len(engineRun.policies) + Len(custom) <= engineRun.cap
          IN  engineRun' =
                  [engineRun EXCEPT
                      !.spare = IF fits THEN WriteSlots(@, custom) ELSE @,
                      !.calls[c] =
                          [pc |-> "appended", estimation |-> est, custom |-> custom,
                           shares |-> fits,
                           copy |-> IF fits THEN <<>>
                                    ELSE engineRun.policies \o custom]]
    /\ UNCHANGED outsideEngine

\* the slice the loop of a call ranges over
allPolicies(call) ==
    IF call.shares
    THEN engineRun.policies \o SubSeq(engineRun.spare, 1, Len(call.custom))
    ELSE call.copy

\* Engine.Evaluate from its loop to its return
EvaluateLoop(c) ==
    /\ engineRun.status = 1
    /\ engineRun.calls[c].pc = "appended"
    /\ engineRun' =
           [engineRun EXCEPT
               !.calls[c] =
                   [pc |-> "returned", estimation |-> @.estimation,
                    custom |-> @.custom, shares |-> @.shares, copy |-> @.copy,
                    result |-> Evaluate(allPolicies(@), "", <<>>, @.estimation, "dev",
                                        FALSE).result]]
    /\ UNCHANGED outsideEngine

\* the caller has its result
EvaluateReturn(c) ==
    /\ engineRun.status = 1
    /\ engineRun.calls[c].pc = "returned"
    /\ engineRun' = [engineRun EXCEPT !.calls[c] = IdleCall]
    /\ UNCHANGED outsideEngine

EngineNext ==
    \/ EngineStart
    \/ EngineAddPolicy
    \/ \E c \in Callers :
          \/ EvaluateAppend(c)
          \/ EvaluateLoop(c)
          \/ EvaluateReturn(c)

EngineSpec == Init /\ [][EngineNext]_vars

\* C30: custom policies of one Evaluate call affect that call alone: the engine's
\* policy list never holds them, and every call returns the verdict of the engine's
\* policies and its own custom policies
C30_CustomPoliciesStayLocal ==
    engineRun.status = 1 =>
        /\ \A i \in DOMAIN engineRun.policies :
              engineRun.policies[i].id \notin {"api-cost-limit", "api-carbon-budget"}
        /\ \A c \in Callers :
              engineRun.calls[c].pc = "returned" =>
                  engineRun.calls[c].result =
                      Evaluate(engineRun.policies, "", engineRun.calls[c].custom,
                               engineRun.calls[c].estimation, "dev", FALSE).result

====
